---- MODULE Spec2Model ----
(***************************************************************************)
(* picture_sorter (src/src/main.rs): grouping of files into units, the     *)
(* two-pass HDR / burst sequence detector, the copy planner with its       *)
(* validation gate, and the plan executor.                                 *)
(***************************************************************************)
EXTENDS Integers, Sequences, FiniteSets, TLC

VARIABLES
    pc,                      \* position of the control flow
    all_files,               \* group_files_by_base: Vec<PathBuf> of the scan
    groups,                  \* main: groups, HashMap<String, Vec<PathBuf>>
    exif_cache,              \* HashMap<String, (PathBuf, Value)>
    visited,                 \* keys the running HashMap iteration has yielded
    clock,                   \* the last reading of Utc::now()
    photo_info,              \* detect_sequences: Vec<(base, burst, hdr, date)>
    idx,                     \* index of the next element of the running for loop
    sequences,               \* detect_sequences: HashMap<String, SequenceType>
    current_hdr_sequence,    \* pass 1: keys of the open HDR run
    expected_hdr_shot,       \* pass 1: next expected shot number
    hdr_sequence_name,       \* pass 1: folder name of the open HDR run
    current_burst_sequence,  \* pass 2: keys of the open burst run
    expected_burst_num,      \* pass 2: next expected burst number
    burst_sequence_name,     \* pass 2: folder name of the open burst run
    cutoff_date,             \* main: Option<DateTime<Utc>> of incremental mode
    src_meta,                \* what fs::metadata answers for each source path
    disk,                    \* the paths that exist in the destination tree
    errors,                  \* validate_and_plan_copy: Vec<ValidationError>
    copy_plan,               \* validate_and_plan_copy: Vec<(PathBuf, PathBuf)>
    result,                  \* what validate_and_plan_copy returned
    dry_run,                 \* args.dry_run
    stdout,                  \* the lines main and copy_files print about files
    exit_code,               \* exit status of the process
    routing,                 \* one call of determine_target_base and its value
    representative_files,    \* cache_exif_data: Vec<(String, PathBuf)>
    exiftool,                \* what get_exif_data answers for each photo file
    results,                 \* cache_exif_data: outputs of the finished tasks
    previous                 \* the plan and the tree of the run before this one

detect_vars ==
    << photo_info, idx, sequences, current_hdr_sequence, expected_hdr_shot,
       hdr_sequence_name, current_burst_sequence, expected_burst_num,
       burst_sequence_name >>

input_vars == << groups, exif_cache >>

collect_vars == << visited, clock >>

group_vars == << all_files >>

plan_vars ==
    << cutoff_date, src_meta, disk, errors, copy_plan, result, dry_run,
       stdout, exit_code >>

cache_vars == << representative_files, exiftool, results >>

vars ==
    << pc, group_vars, input_vars, collect_vars, detect_vars, plan_vars,
       routing, cache_vars, previous >>

(***************************************************************************)
(* Bounds                                                                  *)
(***************************************************************************)
\* largest burst / HDR shot ordinal the metadata reports
MaxOrd == 2

\* unit keys of the sequencing runs, in ascending string order
UnitKeys == << "A", "B", "C", "D" >>

(***************************************************************************)
(* Values                                                                  *)
(***************************************************************************)
\* Option::None of an Option<u32> / Option<DateTime>
None == -1

Range(s) == { s[i] : i \in 1..Len(s) }

\* SequenceType::Hdr(folder) / SequenceType::Burst(folder)
SequenceType(kind, folder) == [kind |-> kind, folder |-> folder]

EmptyMap == [k \in {} |-> 0]

(***************************************************************************)
(* Time.  A DateTime<Utc> is a number of ticks; the calendar is reduced to *)
(* years of DaysPerYear days of TicksPerDay ticks.                         *)
(***************************************************************************)
\* instants of one day
TicksPerDay == 1

\* the instants metadata, clock and file system report: T0 .. T0 + MaxTime
MaxTime == 1

DaysPerYear == 365

TicksPerYear == TicksPerDay * DaysPerYear

\* date.year() >= 1990 && date.year() <= 2050
MinYear == 1990
MaxYear == 2050

YearOf(t) == t \div TicksPerYear

\* the day of the year, standing for date.format("%m") and date.format("%d")
DayOf(t) == (t % TicksPerYear) \div TicksPerDay

\* the first instant of MinYear; T0 - 1 is the last instant of MinYear - 1
T0 == MinYear * TicksPerYear

Instants == T0..(T0 + MaxTime)

(***************************************************************************)
(* File names.  A name is a sequence of tokens, "." being a token of its   *)
(* own; a path is a directory and a name.                                  *)
(***************************************************************************)
Path(dir, name) == [dir |-> dir, name |-> name]

\* str::to_lowercase on the tokens in use
ToLowercase(tok) ==
    CASE tok = "JPG" -> "jpg"
      [] tok = "JPEG" -> "jpeg"
      [] tok = "CR2" -> "cr2"
      [] tok = "ORF" -> "orf"
      [] tok = "XMP" -> "xmp"
      [] tok = "TXT" -> "txt"
      [] OTHER -> tok

\* filename.to_lowercase().ends_with("." + ext)
EndsWithExt(name, ext) ==
    /\ Len(name) >= 2
    /\ name[Len(name) - 1] = "."
    /\ ToLowercase(name[Len(name)]) = ext

is_raw_file(name) ==
    \E ext \in {"cr2", "nef", "arw", "dng", "raw", "orf"} : EndsWithExt(name, ext)

is_jpeg_file(name) ==
    \E ext \in {"jpg", "jpeg"} : EndsWithExt(name, ext)

\* the filter of cache_exif_data and detect_sequences
IsPhotoPath(f) == is_raw_file(f.name) \/ is_jpeg_file(f.name)

(***************************************************************************)
(* Metadata.  An exif value holds the three fields the program reads, each *)
(* None when the field is absent or does not match its pattern.            *)
(***************************************************************************)
Exif(date, special, drive) ==
    [DateTimeOriginal |-> date, SpecialMode |-> special, DriveMode |-> drive]

\* the parsed DateTimeOriginal when its year lies in MinYear..MaxYear
get_exif_date(exif) ==
    IF /\ exif.DateTimeOriginal # None
       /\ YearOf(exif.DateTimeOriginal) >= MinYear
       /\ YearOf(exif.DateTimeOriginal) <= MaxYear
    THEN exif.DateTimeOriginal
    ELSE None

\* the number after "Sequence:" in SpecialMode, else 0
get_sequence_info(exif) ==
    IF exif.SpecialMode # None THEN exif.SpecialMode ELSE 0

\* the number after "Shot" in an auto bracketing, electronic shutter DriveMode
get_hdr_info(exif) == exif.DriveMode

(***************************************************************************)
(* detect_sequences, the shared flush                                      *)
(***************************************************************************)
\* for base in &run { sequences.insert(base.clone(), tag) }
InsertAll(seqs, run, tag) ==
    [k \in (DOMAIN seqs) \cup Range(run) |->
        IF k \in Range(run) THEN tag ELSE seqs[k]]

FlushRunAlways(seqs, run, tag) ==
    IF Len(run) > 0 THEN InsertAll(seqs, run, tag) ELSE seqs

\* if current_sequence.len() > 1 { for base in &current_sequence { insert } }
FlushRun(seqs, run, tag) ==
    IF Len(run) > 1 THEN InsertAll(seqs, run, tag) ELSE seqs

(***************************************************************************)
(* detect_sequences, pass 1 (HDR).  st = [run, expected, name, seqs]       *)
(***************************************************************************)
HdrStartRenamesFirst(st, base) ==
    [seqs     |-> FlushRun(st.seqs, st.run, SequenceType("Hdr", base \o "_HDR")),
     name     |-> base \o "_HDR",
     run      |-> << base >>,
     expected |-> 2]

\* *shot_num == 1: finish the previous run, start a new one
HdrStart(st, base) ==
    [seqs     |-> FlushRun(st.seqs, st.run, SequenceType("Hdr", st.name)),
     name     |-> base \o "_HDR",
     run      |-> << base >>,
     expected |-> 2]

\* a continuation that does not advance the expected shot number
HdrContinueKeepsExpected(st, base) == [st EXCEPT !.run = Append(@, base)]

\* *shot_num == expected_hdr_shot && !current_hdr_sequence.is_empty()
HdrContinue(st, base) ==
    [st EXCEPT !.run = Append(@, base), !.expected = @ + 1]

\* a broken sequence that takes the offending unit into the run
HdrBrokenJoinsRun(st, base, shot) == [st EXCEPT !.run = Append(@, base)]

\* the sequence is broken by a present, unexpected shot number
HdrBroken(st, base, shot) ==
    LET flushed == FlushRun(st.seqs, st.run, SequenceType("Hdr", st.name))
    IN  IF shot = 1
        THEN [seqs |-> flushed, name |-> base \o "_HDR",
              run |-> << base >>, expected |-> 2]
        ELSE [seqs |-> flushed, name |-> st.name,
              run |-> << >>, expected |-> 1]

HdrAbsentKeepsRun(st) == st

\* hdr_shot_num is None: finish the current run, clear
HdrAbsent(st) ==
    [seqs     |-> FlushRun(st.seqs, st.run, SequenceType("Hdr", st.name)),
     name     |-> st.name,
     run      |-> << >>,
     expected |-> 1]

\* the body of the first for loop
HdrStep(st, base, shot) ==
    IF shot # None
    THEN IF shot = 1 THEN HdrStart(st, base)
         ELSE IF shot = st.expected /\ st.run # << >> THEN HdrContinue(st, base)
         ELSE HdrBroken(st, base, shot)
    ELSE HdrAbsent(st)

(***************************************************************************)
(* detect_sequences, pass 2 (burst)                                        *)
(***************************************************************************)
NeverSkip(seqs, base) == FALSE

\* if sequences.contains_key(base) { continue; }
AlreadyTagged(seqs, base) == base \in DOMAIN seqs

\* *burst_seq_num == 0: finish the current run, clear
BurstAbsent(st) ==
    [seqs     |-> FlushRun(st.seqs, st.run, SequenceType("Burst", st.name)),
     name     |-> st.name,
     run      |-> << >>,
     expected |-> 0]

\* *burst_seq_num == 1: finish the previous run, start a new one
BurstStart(st, base) ==
    [seqs     |-> FlushRun(st.seqs, st.run, SequenceType("Burst", st.name)),
     name     |-> base \o "_BURST",
     run      |-> << base >>,
     expected |-> 2]

\* a continuation that does not advance the expected burst number
BurstContinueKeepsExpected(st, base) == [st EXCEPT !.run = Append(@, base)]

\* *burst_seq_num == expected_burst_num && !current_burst_sequence.is_empty()
BurstContinue(st, base) ==
    [st EXCEPT !.run = Append(@, base), !.expected = @ + 1]

\* a broken sequence that takes the offending unit into the run
BurstBrokenJoinsRun(st, base, burst) == [st EXCEPT !.run = Append(@, base)]

\* the sequence is broken by a non-zero, unexpected burst number
BurstBroken(st, base, burst) ==
    LET flushed == FlushRun(st.seqs, st.run, SequenceType("Burst", st.name))
    IN  IF burst = 1
        THEN [seqs |-> flushed, name |-> base \o "_BURST",
              run |-> << base >>, expected |-> 2]
        ELSE [seqs |-> flushed, name |-> st.name,
              run |-> << >>, expected |-> 0]

\* the body of the second for loop
BurstStep(st, base, burst) ==
    IF AlreadyTagged(st.seqs, base) THEN st
    ELSE IF burst = 0 THEN BurstAbsent(st)
    ELSE IF burst = 1 THEN BurstStart(st, base)
    ELSE IF burst = st.expected /\ st.run # << >> THEN BurstContinue(st, base)
    ELSE BurstBroken(st, base, burst)

(***************************************************************************)
(* detect_sequences, the two loops as steps                                *)
(***************************************************************************)
HdrState ==
    [run |-> current_hdr_sequence, expected |-> expected_hdr_shot,
     name |-> hdr_sequence_name, seqs |-> sequences]

BurstState ==
    [run |-> current_burst_sequence, expected |-> expected_burst_num,
     name |-> burst_sequence_name, seqs |-> sequences]

\* let mut sequences = HashMap::new(); and the locals of both passes
PassLocalsInit ==
    /\ idx = 1
    /\ sequences = EmptyMap
    /\ current_hdr_sequence = << >>
    /\ expected_hdr_shot = 1
    /\ hdr_sequence_name = ""
    /\ current_burst_sequence = << >>
    /\ expected_burst_num = 0
    /\ burst_sequence_name = ""

\* the scan has not been taken
NotScanning == all_files = << >>

\* validate_and_plan_copy has not been entered
NotPlanning ==
    /\ cutoff_date = None
    /\ src_meta = EmptyMap
    /\ disk = {}
    /\ errors = << >>
    /\ copy_plan = << >>
    /\ result = [kind |-> "Pending"]
    /\ dry_run = FALSE
    /\ stdout = << >>
    /\ exit_code = None

\* determine_target_base has not been called
NoCall == [filename |-> << >>, default_base |-> << >>, target_base |-> << >>]

NotRouting == routing = NoCall

\* cache_exif_data is not running
NotCaching ==
    /\ representative_files = << >>
    /\ exiftool = EmptyMap
    /\ results = << >>

\* Option::None of a finished run
NoRun == [plan |-> << >>, disk |-> {}, status |-> None]

\* the process was started once
FirstRun == previous = NoRun

\* one iteration of: for (base, _, hdr_shot_num, _) in &photo_info
Pass1Step ==
    /\ pc = "pass1"
    /\ idx <= Len(photo_info)
    /\ LET st == HdrStep(HdrState, photo_info[idx].base, photo_info[idx].hdr)
       IN  /\ current_hdr_sequence' = st.run
           /\ expected_hdr_shot' = st.expected
           /\ hdr_sequence_name' = st.name
           /\ sequences' = st.seqs
    /\ idx' = idx + 1
    /\ UNCHANGED << pc, photo_info, current_burst_sequence, expected_burst_num,
                    burst_sequence_name >>
    /\ UNCHANGED << routing, cache_vars, previous >>
    /\ UNCHANGED << group_vars, input_vars, collect_vars, plan_vars >>

\* after the first loop: "Don't forget the last HDR sequence"
Pass1End ==
    /\ pc = "pass1"
    /\ idx > Len(photo_info)
    /\ sequences' = FlushRun(sequences, current_hdr_sequence,
                             SequenceType("Hdr", hdr_sequence_name))
    /\ pc' = "pass2"
    /\ idx' = 1
    /\ UNCHANGED << photo_info, current_hdr_sequence, expected_hdr_shot,
                    hdr_sequence_name, current_burst_sequence,
                    expected_burst_num, burst_sequence_name >>
    /\ UNCHANGED << routing, cache_vars, previous >>
    /\ UNCHANGED << group_vars, input_vars, collect_vars, plan_vars >>

\* one iteration of: for (base, burst_seq_num, _, _) in &photo_info
Pass2Step ==
    /\ pc = "pass2"
    /\ idx <= Len(photo_info)
    /\ LET st == BurstStep(BurstState, photo_info[idx].base, photo_info[idx].burst)
       IN  /\ current_burst_sequence' = st.run
           /\ expected_burst_num' = st.expected
           /\ burst_sequence_name' = st.name
           /\ sequences' = st.seqs
    /\ idx' = idx + 1
    /\ UNCHANGED << pc, photo_info, current_hdr_sequence, expected_hdr_shot,
                    hdr_sequence_name >>
    /\ UNCHANGED << routing, cache_vars, previous >>
    /\ UNCHANGED << group_vars, input_vars, collect_vars, plan_vars >>

\* after the second loop: "Don't forget the last burst sequence"; return
Pass2End ==
    /\ pc = "pass2"
    /\ idx > Len(photo_info)
    /\ sequences' = FlushRun(sequences, current_burst_sequence,
                             SequenceType("Burst", burst_sequence_name))
    /\ pc' = "detected"
    /\ UNCHANGED << photo_info, idx, current_hdr_sequence, expected_hdr_shot,
                    hdr_sequence_name, current_burst_sequence,
                    expected_burst_num, burst_sequence_name >>
    /\ UNCHANGED << routing, cache_vars, previous >>
    /\ UNCHANGED << group_vars, input_vars, collect_vars, plan_vars >>

(***************************************************************************)
(* detect_sequences, collecting and sorting photo_info                     *)
(***************************************************************************)
\* String::cmp on the unit keys in use
Rank(k) == CHOOSE i \in 1..Len(UnitKeys) : UnitKeys[i] = k

\* a.3.cmp(&b.3).then_with(|| a.0.cmp(&b.0)) is Less
InfoLess(a, b) ==
    \/ a.date < b.date
    \/ a.date = b.date /\ Rank(a.base) < Rank(b.base)

RECURSIVE SortInfo(_)
\* photo_info.sort_by(...)
SortInfo(list) ==
    IF list = << >> THEN << >>
    ELSE LET x == Head(list)
             rest == SortInfo(Tail(list))
         IN  SelectSeq(rest, LAMBDA y : InfoLess(y, x))
                 \o << x >>
                 \o SelectSeq(rest, LAMBDA y : ~InfoLess(y, x))

PhotoInfo(base, exif, date) ==
    [base |-> base, burst |-> get_sequence_info(exif),
     hdr |-> get_hdr_info(exif), date |-> date]

\* a loop that pushes no entry
NeverSequenced(base) == FALSE

\* whether the loop pushes an entry for this unit
Sequenced(base) ==
    /\ SelectSeq(groups[base], IsPhotoPath) # << >>
    /\ base \in DOMAIN exif_cache

\* the units whose date is Utc::now() at the moment they are visited
TakesNow(base) ==
    Sequenced(base) /\ get_exif_date(exif_cache[base].exif) = None

\* one iteration of: for (base, file_list) in files, in the order the HashMap
\* yields its keys; the clock never runs backwards between two readings
Visit ==
    /\ pc = "collect"
    /\ \E base \in (DOMAIN groups) \ visited :
          /\ visited' = visited \cup {base}
          /\ IF Sequenced(base)
             THEN LET exif == exif_cache[base].exif
                  IN  IF get_exif_date(exif) # None
                      THEN /\ photo_info' = Append(photo_info,
                                  PhotoInfo(base, exif, get_exif_date(exif)))
                           /\ clock' = clock
                      ELSE \E now \in Instants :
                              /\ now >= clock
                              /\ photo_info' = Append(photo_info,
                                     PhotoInfo(base, exif, now))
                              /\ clock' = now
             ELSE UNCHANGED << photo_info, clock >>
    /\ UNCHANGED << routing, cache_vars, previous >>
    /\ UNCHANGED << pc, input_vars, idx, sequences, current_hdr_sequence,
                    expected_hdr_shot, hdr_sequence_name,
                    current_burst_sequence, expected_burst_num,
                    burst_sequence_name, group_vars, plan_vars >>

\* photo_info.sort_by(...) after the loop
Sort ==
    /\ pc = "collect"
    /\ visited = DOMAIN groups
    /\ photo_info' = SortInfo(photo_info)
    /\ pc' = "pass1"
    /\ UNCHANGED << routing, cache_vars, previous >>
    /\ UNCHANGED << input_vars, collect_vars, idx, sequences,
                    current_hdr_sequence, expected_hdr_shot, hdr_sequence_name,
                    current_burst_sequence, expected_burst_num,
                    burst_sequence_name, group_vars, plan_vars >>

(***************************************************************************)
(* detect_sequences as a function of the sorted photo_info                 *)
(***************************************************************************)
RECURSIVE FoldHdr(_, _, _)
FoldHdr(st, list, i) ==
    IF i > Len(list) THEN st
    ELSE FoldHdr(HdrStep(st, list[i].base, list[i].hdr), list, i + 1)

RECURSIVE FoldBurst(_, _, _)
FoldBurst(st, list, i) ==
    IF i > Len(list) THEN st
    ELSE FoldBurst(BurstStep(st, list[i].base, list[i].burst), list, i + 1)

\* the tag map both passes return for a sorted photo_info
TagsOf(list) ==
    LET h == FoldHdr([run |-> << >>, expected |-> 1, name |-> "",
                      seqs |-> EmptyMap], list, 1)
        afterHdr == FlushRun(h.seqs, h.run, SequenceType("Hdr", h.name))
        b == FoldBurst([run |-> << >>, expected |-> 0, name |-> "",
                        seqs |-> afterHdr], list, 1)
    IN  FlushRun(b.seqs, b.run, SequenceType("Burst", b.name))

(***************************************************************************)
(* SpecDetect: detect_sequences over every group map and cache             *)
(***************************************************************************)
DetectKeys == {"A", "B", "C"}

InputDir == << "in" >>

\* the ordinals of one representative: no sequence, a bracket, or a burst
OrdinalProfiles ==
    {<< None, None >>}
        \cup { << None, h >> : h \in 1..MaxOrd }
        \cup { << s, None >> : s \in 1..MaxOrd }

\* DateTimeOriginal: the last instant before MinYear (rejected by
\* get_exif_date like an absent or malformed field), or an acceptable instant
RawDates == (T0 - 1)..(T0 + MaxTime)

Exifs == { Exif(d, o[1], o[2]) : d \in RawDates, o \in OrdinalProfiles }

NoExif == Exif(None, None, None)

\* a unit of sidecars only, a photo whose query failed, a cached photo
UnitShapes ==
    { [kind |-> "sidecar", exif |-> NoExif], [kind |-> "uncached", exif |-> NoExif] }
        \cup { [kind |-> "cached", exif |-> e] : e \in Exifs }

ShapeFiles(k, shape) ==
    IF shape.kind = "sidecar"
    THEN << Path(InputDir, << k, ".", "xmp" >>) >>
    ELSE << Path(InputDir, << k, ".", "jpg" >>) >>

InitDetect ==
    /\ NotRouting
    /\ NotCaching
    /\ FirstRun
    /\ pc = "collect"
    /\ \E shape \in [DetectKeys -> UnitShapes] :
          /\ groups = [k \in DetectKeys |-> ShapeFiles(k, shape[k])]
          /\ exif_cache =
                [k \in { u \in DetectKeys : shape[u].kind = "cached" } |->
                    [rep |-> Path(InputDir, << k, ".", "jpg" >>),
                     exif |-> shape[k].exif]]
    /\ visited = {}
    /\ clock = T0
    /\ photo_info = << >>
    /\ PassLocalsInit
    /\ NotScanning
    /\ NotPlanning

NextDetect == Visit \/ Sort \/ Pass1Step \/ Pass1End \/ Pass2Step \/ Pass2End

SpecDetect == InitDetect /\ [][NextDetect]_vars

(***************************************************************************)
(* SpecSeq: both passes over every sorted photo_info                       *)
(***************************************************************************)
HdrOrdinals == {None} \cup (1..MaxOrd)
BurstOrdinals == 0..MaxOrd

\* the state after the sort: every unit is a cached photo of the same second,
\* so photo_info is ordered by key
InitSeq ==
    /\ NotRouting
    /\ NotCaching
    /\ FirstRun
    /\ pc = "pass1"
    /\ \E n \in 0..Len(UnitKeys) :
         \E h \in [1..n -> HdrOrdinals], b \in [1..n -> BurstOrdinals] :
            LET keys == { UnitKeys[i] : i \in 1..n }
                exif == [i \in 1..n |-> Exif(T0, b[i], h[i])]
            IN  /\ groups = [k \in keys |-> << Path(InputDir, << k, ".", "jpg" >>) >>]
                /\ exif_cache = [k \in keys |->
                      [rep |-> Path(InputDir, << k, ".", "jpg" >>),
                       exif |-> exif[Rank(k)]]]
                /\ photo_info = [i \in 1..n |->
                      PhotoInfo(UnitKeys[i], exif[i], get_exif_date(exif[i]))]
    /\ visited = DOMAIN groups
    /\ clock = T0
    /\ PassLocalsInit
    /\ NotScanning
    /\ NotPlanning

NextSeq == Pass1Step \/ Pass1End \/ Pass2Step \/ Pass2End

SpecSeq == InitSeq /\ [][NextSeq]_vars

(***************************************************************************)
(* Claims about the two passes (SpecSeq)                                   *)
(***************************************************************************)
TaggedAs(k, kind) == k \in DOMAIN sequences /\ sequences[k].kind = kind

\* C1: HDR precedence and single tagging.  A key tagged Hdr keeps that very
\* tag in every later step of both passes, and no step of pass 2 inserts or
\* overwrites a tag for a key that is already tagged.
C1_HdrPrecedence ==
    [][ /\ \A k \in DOMAIN sequences :
              sequences[k].kind = "Hdr" =>
                  k \in DOMAIN sequences' /\ sequences'[k] = sequences[k]
        /\ pc = "pass2" =>
              \A k \in DOMAIN sequences :
                  k \in DOMAIN sequences' /\ sequences'[k] = sequences[k] ]_vars

\* two neighbours tagged Hdr whose burst ordinals 1, 2 would form a burst run
C1_Witness ==
    /\ pc = "detected"
    /\ \E i \in 1..(Len(photo_info) - 1) :
          /\ TaggedAs(photo_info[i].base, "Hdr")
          /\ TaggedAs(photo_info[i + 1].base, "Hdr")
          /\ photo_info[i].burst = 1
          /\ photo_info[i + 1].burst = 2

\* C2: minimum run length.  Every tag (kind and folder name) that occurs in
\* the tag map is carried by at least two distinct unit keys, after every
\* flush of either pass.
C2_MinRunLength ==
    \A k \in DOMAIN sequences :
        \E j \in DOMAIN sequences : j # k /\ sequences[j] = sequences[k]

\* a run of length 1 was flushed untagged next to a run that was tagged
C2_Witness ==
    /\ pc = "detected"
    /\ sequences # EmptyMap
    /\ \E i \in 1..Len(photo_info) :
          /\ photo_info[i].hdr = 1
          /\ photo_info[i].burst = 1
          /\ photo_info[i].base \notin DOMAIN sequences

\* a unit with HDR shot ordinal 1 whose successor in the sorted order does
\* not have HDR shot ordinal 2
LoneHdrStart(i) ==
    /\ photo_info[i].hdr = 1
    /\ (i = Len(photo_info) \/ photo_info[i + 1].hdr # 2)

\* C8 as stated: a unit with HDR shot ordinal 1 that is not followed by a unit
\* with HDR shot ordinal 2 has no entry in the tag map.
C8_NoEntryForLoneHdrStart ==
    \A i \in 1..Len(photo_info) :
        LoneHdrStart(i) => photo_info[i].base \notin DOMAIN sequences

\* C8 as amended: a unit with HDR shot ordinal 1 that is not followed by a unit
\* with HDR shot ordinal 2 is never tagged Hdr (pass 2 may still tag it Burst).
C8_NoSingletonHdr ==
    \A i \in 1..Len(photo_info) :
        LoneHdrStart(i) => ~TaggedAs(photo_info[i].base, "Hdr")

\* such a unit, left untagged by pass 1 and tagged Burst by pass 2
C8_Witness ==
    /\ pc = "detected"
    /\ \E i \in 1..Len(photo_info) :
          LoneHdrStart(i) /\ TaggedAs(photo_info[i].base, "Burst")

PosIn(list, k) == CHOOSE i \in 1..Len(list) : list[i].base = k

\* the units pass 2 does not skip
NotHdrTagged == SelectSeq(photo_info, LAMBDA u : ~TaggedAs(u.base, "Hdr"))

\* C9: folder naming.  A unit tagged with ordinal j is the j-th member of its
\* run, and its folder name is the key of the run's first member followed by
\* "_HDR" (HDR run; members adjacent in photo_info) or "_BURST" (burst run;
\* members adjacent among the units pass 2 does not skip).
C9_FolderNaming ==
    \A k \in DOMAIN sequences :
        IF sequences[k].kind = "Hdr"
        THEN LET p == PosIn(photo_info, k)
                 j == photo_info[p].hdr
             IN  /\ j >= 1
                 /\ p - j + 1 >= 1
                 /\ sequences[k].folder = photo_info[p - j + 1].base \o "_HDR"
        ELSE LET q == PosIn(NotHdrTagged, k)
                 j == NotHdrTagged[q].burst
             IN  /\ sequences[k].kind = "Burst"
                 /\ j >= 1
                 /\ q - j + 1 >= 1
                 /\ sequences[k].folder = NotHdrTagged[q - j + 1].base \o "_BURST"

\* a tagged HDR run that was flushed by the ordinal 1 of the next unit
C9_Witness ==
    /\ pc = "detected"
    /\ \E i \in 1..(Len(photo_info) - 2) :
          /\ photo_info[i].hdr = 1
          /\ photo_info[i + 1].hdr = 2
          /\ photo_info[i + 2].hdr = 1
          /\ TaggedAs(photo_info[i + 1].base, "Hdr")
          /\ sequences[photo_info[i + 1].base].folder = photo_info[i].base \o "_HDR"

(***************************************************************************)
(* Claims about detect_sequences as a whole (SpecDetect)                   *)
(***************************************************************************)
\* the units that took the current-time fallback in this run
NowUnits == { k \in DOMAIN groups : TakesNow(k) }

DateOf(k) == photo_info[PosIn(photo_info, k)].date

\* photo_info of a run whose HashMap iteration handed the same clock readings
\* to the units of NowUnits in another order: unit k got the reading of swap[k]
Revisited(swap) ==
    [i \in 1..Len(photo_info) |->
        IF photo_info[i].base \in NowUnits
        THEN [photo_info[i] EXCEPT !.date = DateOf(swap[photo_info[i].base])]
        ELSE photo_info[i]]

\* C7: order-independent tagging.  For the same units and the same cache,
\* every iteration order of the unit map leads to the tag map this run
\* returned, also when cached units without a valid capture time take the
\* clock reading of the moment they are visited.
C7_OrderIndependent ==
    pc = "detected" =>
        \A swap \in [NowUnits -> NowUnits] :
            (\A k \in NowUnits : \E u \in NowUnits : swap[u] = k)
                => TagsOf(SortInfo(Revisited(swap))) = sequences

(***************************************************************************)
(* group_files_by_base                                                     *)
(***************************************************************************)
RECURSIVE Join(_)
\* the string a sequence of tokens spells
Join(tokens) ==
    IF tokens = << >> THEN "" ELSE Head(tokens) \o Join(Tail(tokens))

\* a name token whose bytes are not valid UTF-8
BadBytes == "<FF>"

\* n.to_str() is Some: the name is valid UTF-8
IsUtf8(name) == \A i \in 1..Len(name) : name[i] # BadBytes

RECURSIVE Split(_)
\* filename.split('.'): the pieces between the dots, empty pieces included
Split(name) ==
    IF name = << >> THEN << "" >>
    ELSE LET rest == Split(Tail(name))
         IN  IF Head(name) = "."
             THEN << "" >> \o rest
             ELSE << Head(name) \o Head(rest) >> \o Tail(rest)

\* filename.split('.').next().unwrap_or("")
BaseOf(name) == Head(Split(name))

\* groups.entry(base).or_default().push(file_path)
Push(map, base, f) ==
    [k \in (DOMAIN map) \cup {base} |->
        IF k # base THEN map[k]
        ELSE IF base \in DOMAIN map THEN Append(map[base], f) ELSE << f >>]

\* one iteration of: for file_path in all_files
GroupStep ==
    /\ pc = "group"
    /\ idx <= Len(all_files)
    /\ LET file_path == all_files[idx]
       IN  groups' = IF IsUtf8(file_path.name)
                     THEN Push(groups, BaseOf(file_path.name), file_path)
                     ELSE groups
    /\ idx' = idx + 1
    /\ UNCHANGED << routing, cache_vars, previous >>
    /\ UNCHANGED << pc, all_files, exif_cache, collect_vars, photo_info,
                    sequences, current_hdr_sequence, expected_hdr_shot,
                    hdr_sequence_name, current_burst_sequence,
                    expected_burst_num, burst_sequence_name, plan_vars >>

\* after the loop: return groups
GroupEnd ==
    /\ pc = "group"
    /\ idx > Len(all_files)
    /\ pc' = "grouped"
    /\ UNCHANGED << routing, cache_vars, previous >>
    /\ UNCHANGED << group_vars, input_vars, collect_vars, detect_vars,
                    plan_vars >>

(***************************************************************************)
(* SpecGroup: group_files_by_base over every scan of up to MaxFiles files  *)
(***************************************************************************)
\* the number of files the scan returns
MaxFiles == 3

\* files the recursive scan can find: equal names in two directories, two
\* and three part names, a name without a dot, a name that starts with a
\* dot, and a name that is not valid UTF-8
ScanPaths ==
    { Path(<< "in" >>, << "A", ".", "jpg" >>),
      Path(<< "in", "sub" >>, << "A", ".", "jpg" >>),
      Path(<< "in" >>, << "A", ".", "CR2" >>),
      Path(<< "in" >>, << "A", ".", "CR2", ".", "xmp" >>),
      Path(<< "in" >>, << "B", ".", "jpg" >>),
      Path(<< "in" >>, << "README" >>),
      Path(<< "in" >>, << ".", "hidden" >>),
      Path(<< "in" >>, << BadBytes, ".", "jpg" >>) }

\* collect_all_files_recursive returns every file of the tree once, in the
\* order read_dir yields them
InitGroup ==
    /\ NotRouting
    /\ NotCaching
    /\ FirstRun
    /\ pc = "group"
    /\ \E n \in 0..MaxFiles :
          \E scan \in [1..n -> ScanPaths] :
              /\ \A i, j \in 1..n : scan[i] = scan[j] => i = j
              /\ all_files = scan
    /\ groups = EmptyMap
    /\ exif_cache = EmptyMap
    /\ visited = {}
    /\ clock = T0
    /\ photo_info = << >>
    /\ PassLocalsInit
    /\ NotPlanning

NextGroup == GroupStep \/ GroupEnd

SpecGroup == InitGroup /\ [][NextGroup]_vars

(***************************************************************************)
(* Claims about group_files_by_base (SpecGroup)                            *)
(***************************************************************************)
\* the part of a file name before its first '.'
BeforeFirstDot(name) ==
    LET dots == { i \in 1..Len(name) : name[i] = "." }
        first == IF dots = {} THEN Len(name) + 1
                 ELSE CHOOSE i \in dots : \A j \in dots : i <= j
    IN  Join(SubSeq(name, 1, first - 1))

\* how often a path occurs in the path lists of all units
Occurrences(f) ==
    Cardinality({ e \in UNION { { << k, i >> : i \in 1..Len(groups[k]) } :
                                k \in DOMAIN groups } :
                  groups[e[1]][e[2]] = f })

\* C10: grouping is a partition.  When group_files_by_base returns, the union
\* of the path lists of all units is the set of scanned paths, and every
\* scanned path occurs exactly once, in the unit whose key is the part of its
\* file name before the first '.'.
C10_Partition ==
    pc = "grouped" =>
        /\ UNION { Range(groups[k]) : k \in DOMAIN groups } = Range(all_files)
        /\ \A i \in 1..Len(all_files) :
              /\ Occurrences(all_files[i]) = 1
              /\ BeforeFirstDot(all_files[i].name) \in DOMAIN groups
              /\ all_files[i] \in Range(groups[BeforeFirstDot(all_files[i].name)])

(***************************************************************************)
(* determine_target_base and the destination path                          *)
(***************************************************************************)
\* str::to_uppercase on the tokens in use
ToUppercase(tok) ==
    CASE tok = "jpg" -> "JPG"
      [] tok = "jpeg" -> "JPEG"
      [] tok = "cr2" -> "CR2"
      [] tok = "orf" -> "ORF"
      [] tok = "xmp" -> "XMP"
      [] tok = "txt" -> "TXT"
      [] OTHER -> tok

output_dir == << "out" >>
raw_dir == output_dir \o << "RAW" >>
jpeg_dir == output_dir \o << "JPEG" >>

\* determine_target_base without the parse of the name
RouteByExtensionOnly(filename, default_base) ==
    IF is_raw_file(filename) THEN raw_dir
    ELSE IF is_jpeg_file(filename) THEN jpeg_dir
    ELSE default_base

determine_target_base(filename, default_base) ==
    IF is_raw_file(filename) THEN raw_dir
    ELSE IF is_jpeg_file(filename) THEN jpeg_dir
    ELSE LET parts == Split(filename)
         IN  IF Len(parts) >= 3
             THEN LET format == ToUppercase(parts[Len(parts) - 1])
                  IN  IF format \in {"ORF", "CR2", "NEF", "ARW", "DNG", "RAW"}
                      THEN raw_dir
                      ELSE IF format \in {"JPG", "JPEG"} THEN jpeg_dir
                      ELSE default_base
             ELSE default_base

\* a target path that stops at the year
DayDirYearOnly(date) == << ToString(YearOf(date)) >>

\* .join(&year).join(&month).join(&day) on the reduced calendar
DayDir(date) == << ToString(YearOf(date)), ToString(DayOf(date)) >>

\* Option::None of an Option<&PathBuf> and of an Option<String>
NoFile == Path(<< >>, << >>)
NoFolder == ""

RECURSIVE JoinWith(_, _)
JoinWith(parts, sep) ==
    IF parts = << >> THEN ""
    ELSE IF Len(parts) = 1 THEN parts[1]
    ELSE parts[1] \o sep \o JoinWith(Tail(parts), sep)

\* path.display().to_string()
Display(p) ==
    JoinWith(IF p.name = << >> THEN p.dir ELSE p.dir \o << Join(p.name) >>, "/")

ValidationError(file, reason) == [file |-> Display(file), reason |-> reason]

(***************************************************************************)
(* validate_and_plan_copy, one unit                                        *)
(***************************************************************************)
\* "Prefer JPEG for representative, else any photo"
photo_file_opt(file_list) ==
    LET jpegs == SelectSeq(file_list, LAMBDA f : is_jpeg_file(f.name))
        photos == SelectSeq(file_list, IsPhotoPath)
    IN  IF jpegs # << >> THEN Head(jpegs)
        ELSE IF photos # << >> THEN Head(photos)
        ELSE NoFile

\* a planner without the fallback: the modification time is never taken
NoMtimeFallback(file) ==
    [file |-> file, date |-> None, reason |-> "Cannot read file metadata"]

\* match fs::metadata(file) { Ok(metadata) => match metadata.modified() ... }
MtimeOf(file) ==
    IF src_meta[file].status = "missing"
    THEN [file |-> file, date |-> None, reason |-> "Cannot read file metadata"]
    ELSE IF src_meta[file].mtime = None
    THEN [file |-> file, date |-> None,
          reason |-> "Cannot get file modification time"]
    ELSE [file |-> file, date |-> src_meta[file].mtime, reason |-> ""]

\* let (photo_file, date) = ...: the capture time of the cache when it is
\* valid, else the modification time of the representative (of the first file
\* when the unit has no photo); date = None when the unit is given up
ResolveDate(base) ==
    LET file_list == groups[base]
        photo_file == photo_file_opt(file_list)
        date == IF base \in DOMAIN exif_cache
                THEN get_exif_date(exif_cache[base].exif)
                ELSE None
    IN  IF photo_file # NoFile
        THEN IF date # None
             THEN [file |-> photo_file, date |-> date, reason |-> ""]
             ELSE MtimeOf(photo_file)
        ELSE MtimeOf(file_list[1])

SkippedBeforeCutoff(date) == cutoff_date # None /\ date < cutoff_date

\* if let Some(cutoff) = cutoff_date { if date <= cutoff { continue; } }
SkippedByCutoff(date) == cutoff_date # None /\ date <= cutoff_date

\* sequences.get(base).map(...)
seq_folder(base) ==
    IF base \in DOMAIN sequences THEN sequences[base].folder ELSE NoFolder

default_target_base(photo_file) ==
    IF is_raw_file(photo_file.name) THEN raw_dir ELSE jpeg_dir

\* let dest = target_path.join(filename), for a unit planned under date
DestIn(file_path, date, photo_file, folder) ==
    LET filename == file_path.name
        target_base ==
            determine_target_base(filename, default_target_base(photo_file))
        day == target_base \o DayDir(date)
        target_path == IF folder # NoFolder THEN day \o << folder >> ELSE day
    IN  Path(target_path, filename)

DestOf(base, file_path, date, photo_file) ==
    DestIn(file_path, date, photo_file, seq_folder(base))

NeverExists(dest) == FALSE

\* dest.exists()
Exists(dest) == dest \in disk

\* a file loop that examines no file once an error is recorded
PlanFileUntilError(acc, base, file_path, date, photo_file) ==
    LET dest == DestOf(base, file_path, date, photo_file)
    IN  IF acc.errors # << >> THEN acc
        ELSE IF src_meta[file_path].status = "missing"
        THEN [acc EXCEPT !.errors = Append(@, ValidationError(file_path,
                  "Source file does not exist or cannot be accessed"))]
        ELSE IF src_meta[file_path].status # "file"
        THEN [acc EXCEPT !.errors = Append(@, ValidationError(file_path,
                  "Source is not a regular file"))]
        ELSE IF dest \in disk
        THEN [acc EXCEPT !.errors = Append(@, ValidationError(file_path,
                  "Destination already exists: " \o Display(dest)))]
        ELSE [acc EXCEPT !.copy_plan =
                  Append(@, [source |-> file_path, dest |-> dest])]

\* the body of: for file_path in file_list.  acc = [errors, copy_plan]
PlanFile(acc, base, file_path, date, photo_file) ==
    LET dest == DestOf(base, file_path, date, photo_file)
    IN  IF src_meta[file_path].status = "missing"
        THEN [acc EXCEPT !.errors = Append(@, ValidationError(file_path,
                  "Source file does not exist or cannot be accessed"))]
        ELSE IF src_meta[file_path].status # "file"
        THEN [acc EXCEPT !.errors = Append(@, ValidationError(file_path,
                  "Source is not a regular file"))]
        ELSE IF Exists(dest)
        THEN [acc EXCEPT !.errors = Append(@, ValidationError(file_path,
                  "Destination already exists: " \o Display(dest)))]
        ELSE [acc EXCEPT !.copy_plan =
                  Append(@, [source |-> file_path, dest |-> dest])]

RECURSIVE PlanFiles(_, _, _, _, _, _)
PlanFiles(acc, base, file_list, i, date, photo_file) ==
    IF i > Len(file_list) THEN acc
    ELSE PlanFiles(PlanFile(acc, base, file_list[i], date, photo_file),
                   base, file_list, i + 1, date, photo_file)

\* the body of: for (base, file_list) in groups
PlanGroup(acc, base) ==
    LET r == ResolveDate(base)
    IN  IF r.date = None
        THEN [acc EXCEPT !.errors = Append(@, ValidationError(r.file, r.reason))]
        ELSE IF SkippedByCutoff(r.date) THEN acc
        ELSE PlanFiles(acc, base, groups[base], 1, r.date, r.file)

(***************************************************************************)
(* validate_and_plan_copy, the loop, the sort and the gate                 *)
(***************************************************************************)
InputDir2 == InputDir \o << "sub" >>

\* PathBuf::cmp, component by component and byte by byte, on the source
\* paths in use, in ascending order
SourceOrder ==
    << Path(InputDir, << "A", ".", "CR2" >>),
       Path(InputDir, << "A", ".", "CR2", ".", "xmp" >>),
       Path(InputDir, << "A", ".", "jpg" >>),
       Path(InputDir, << "A", ".", "xmp" >>),
       Path(InputDir, << "B", ".", "CR2" >>),
       Path(InputDir, << "B", ".", "CR2", ".", "xmp" >>),
       Path(InputDir, << "B", ".", "jpg" >>),
       Path(InputDir, << "B", ".", "xmp" >>),
       Path(InputDir2, << "A", ".", "jpg" >>),
       Path(InputDir2, << "B", ".", "jpg" >>) >>

PathRank(p) == CHOOSE i \in 1..Len(SourceOrder) : SourceOrder[i] = p

RECURSIVE SortPlan(_)
\* copy_plan.sort_by(|a, b| a.0.cmp(&b.0)), a stable sort
SortPlan(plan) ==
    IF plan = << >> THEN << >>
    ELSE LET x == plan[Len(plan)]
             rest == SortPlan(SubSeq(plan, 1, Len(plan) - 1))
         IN  SelectSeq(rest, LAMBDA y : PathRank(y.source) <= PathRank(x.source))
                 \o << x >>
                 \o SelectSeq(rest, LAMBDA y : PathRank(y.source) > PathRank(x.source))

\* Result<Vec<(PathBuf, PathBuf)>, Vec<ValidationError>>
Ok(plan) == [kind |-> "Ok", plan |-> plan]
Err(errs) == [kind |-> "Err", errors |-> errs]

ErrAlways(errs, plan) == Err(errs)

\* if errors.is_empty() { Ok(copy_plan) } else { Err(errors) }
PlanResult(errs, plan) == IF errs = << >> THEN Ok(plan) ELSE Err(errs)

\* one iteration of: for (base, file_list) in groups, in the order the
\* HashMap yields its keys
PlanUnit ==
    /\ pc = "plan"
    /\ \E base \in (DOMAIN groups) \ visited :
          LET acc == PlanGroup([errors |-> errors, copy_plan |-> copy_plan], base)
          IN  /\ errors' = acc.errors
              /\ copy_plan' = acc.copy_plan
              /\ visited' = visited \cup {base}
    /\ UNCHANGED << routing, cache_vars, previous >>
    /\ UNCHANGED << pc, group_vars, input_vars, clock, detect_vars, cutoff_date,
                    src_meta, disk, result, dry_run, stdout, exit_code >>

\* after the loop: sort the plan and return
PlanReturn ==
    /\ pc = "plan"
    /\ visited = DOMAIN groups
    /\ copy_plan' = SortPlan(copy_plan)
    /\ result' = PlanResult(errors, copy_plan')
    /\ pc' = "planned"
    /\ UNCHANGED << routing, cache_vars, previous >>
    /\ UNCHANGED << group_vars, input_vars, collect_vars, detect_vars,
                    cutoff_date, src_meta, disk, errors, dry_run, stdout,
                    exit_code >>

(***************************************************************************)
(* main after validation, and copy_files                                   *)
(***************************************************************************)
CopyAnyway(res) ==
    IF res.kind = "Ok" /\ res.plan = << >> THEN "exit" ELSE "copy"

\* match validate_and_plan_copy(...): where main goes next
AfterValidation(res) ==
    IF res.kind = "Ok"
    THEN IF res.plan = << >> THEN "exit" ELSE "copy"
    ELSE "failed"

\* println!("  {} - {}", error.file, error.reason)
ErrorLine(e) == "  " \o e.file \o " - " \o e.reason

\* a dry run that names the sources only
DryRunSourceOnly(e) == "Would copy " \o Display(e.source)

\* println!("Would copy {} to {}", source.display(), dest.display())
DryRunLine(e) == "Would copy " \o Display(e.source) \o " to " \o Display(e.dest)

\* the two arms of the match in main
MainMatch ==
    /\ pc = "planned"
    /\ LET next == AfterValidation(result)
       IN  \/ /\ next = "exit"
              /\ pc' = "exit"
              /\ exit_code' = 0
              /\ UNCHANGED << idx, dry_run, stdout >>
           \/ /\ next = "copy"
              /\ pc' = "copy"
              /\ idx' = 1
              /\ dry_run' \in BOOLEAN
              /\ UNCHANGED << stdout, exit_code >>
           \/ /\ next = "failed"
              /\ stdout' = stdout \o [i \in 1..Len(errors) |-> ErrorLine(errors[i])]
              /\ pc' = "exit"
              /\ exit_code' = 1
              /\ UNCHANGED << idx, dry_run >>
    /\ UNCHANGED << routing, cache_vars, previous >>
    /\ UNCHANGED << group_vars, input_vars, collect_vars, photo_info, sequences,
                    current_hdr_sequence, expected_hdr_shot, hdr_sequence_name,
                    current_burst_sequence, expected_burst_num,
                    burst_sequence_name, cutoff_date, src_meta, disk, errors,
                    copy_plan, result >>

\* the directories fs::create_dir_all(parent) makes sure of
Parents(dest) == { Path(SubSeq(dest.dir, 1, n), << >>) : n \in 1..Len(dest.dir) }

\* a loop that goes on to the next entry after an error
ContinueAfterError(i) == [pc |-> "copy", idx |-> i + 1, exit_code |-> None]

\* the ? operator at entry i: copy_files returns the error, main returns it,
\* and the process ends with status 1
Propagate(i) == [pc |-> "exit", idx |-> i, exit_code |-> 1]

\* one iteration of: for (source, dest) in copy_plan
CopyStep ==
    /\ pc = "copy"
    /\ idx <= Len(copy_plan)
    /\ LET e == copy_plan[idx]
       IN  IF dry_run
           THEN /\ stdout' = Append(stdout, DryRunLine(e))
                /\ idx' = idx + 1
                /\ UNCHANGED << pc, disk, exit_code >>
           ELSE \/ /\ disk' = disk \cup Parents(e.dest) \cup {e.dest}
                   /\ idx' = idx + 1
                   /\ UNCHANGED << pc, stdout, exit_code >>
                \* fs::create_dir_all(parent)? or fs::copy(&source, &dest)?
                \* returns the error: nothing made, the directories made, or
                \* the directories and a partial destination file made
                \/ /\ disk' \in { disk, disk \cup Parents(e.dest),
                                  disk \cup Parents(e.dest) \cup {e.dest} }
                   /\ pc' = Propagate(idx).pc
                   /\ idx' = Propagate(idx).idx
                   /\ exit_code' = Propagate(idx).exit_code
                   /\ UNCHANGED stdout
    /\ UNCHANGED << routing, cache_vars, previous >>
    /\ UNCHANGED << group_vars, input_vars, collect_vars, photo_info, sequences,
                    current_hdr_sequence, expected_hdr_shot, hdr_sequence_name,
                    current_burst_sequence, expected_burst_num,
                    burst_sequence_name, cutoff_date, src_meta, errors,
                    copy_plan, result, dry_run >>

\* after the loop: copy_files returns Ok(()), main returns Ok(())
CopyEnd ==
    /\ pc = "copy"
    /\ idx > Len(copy_plan)
    /\ pc' = "exit"
    /\ exit_code' = 0
    /\ UNCHANGED << routing, cache_vars, previous >>
    /\ UNCHANGED << group_vars, input_vars, collect_vars, detect_vars,
                    cutoff_date, src_meta, disk, errors, copy_plan, result,
                    dry_run, stdout >>

(***************************************************************************)
(* SpecPlan: main from detect_sequences on (the detector as one step, the  *)
(* planner, the match and copy_files) over the units of two keys           *)
(***************************************************************************)
\* the number of faulty sources and occupied destinations of a run
MaxFaults == 2

PlanKeys == {"A", "B"}

\* a JPEG; two JPEGs of one name in two directories; a RAW with its sidecar;
\* a sidecar alone; no file of this key
FilesOfShape(k, shape) ==
    CASE shape = "jpg" -> << Path(InputDir, << k, ".", "jpg" >>) >>
      [] shape = "twins" -> << Path(InputDir, << k, ".", "jpg" >>),
                               Path(InputDir2, << k, ".", "jpg" >>) >>
      [] shape = "raw" -> << Path(InputDir, << k, ".", "CR2", ".", "xmp" >>),
                             Path(InputDir, << k, ".", "CR2" >>) >>
      [] shape = "sidecar" -> << Path(InputDir, << k, ".", "xmp" >>) >>
      [] OTHER -> << >>

\* an unacceptable DateTimeOriginal, the first and the last instant
PlanDates == {T0 - 1, T0, T0 + MaxTime}

\* the photo shapes of a key: the first key takes every shape, the second the
\* single JPEG
PhotoShapes(k) == IF k = "A" THEN {"jpg", "twins", "raw"} ELSE {"jpg"}

UnitConfigs(k) ==
    { [shape |-> "absent", cached |-> FALSE, date |-> None],
      [shape |-> "sidecar", cached |-> FALSE, date |-> None] }
        \cup { [shape |-> sh, cached |-> FALSE, date |-> None] :
                  sh \in PhotoShapes(k) }
        \cup { [shape |-> sh, cached |-> TRUE, date |-> d] :
                  sh \in PhotoShapes(k), d \in PlanDates }

\* the ordinals of the unit of key k in a run of two: none, a bracket, a burst
PlanExif(k, mode, date) ==
    CASE mode = "Hdr" -> Exif(date, None, Rank(k))
      [] mode = "Burst" -> Exif(date, Rank(k), None)
      [] OTHER -> Exif(date, None, None)

AllSources == UNION { Range(groups[k]) : k \in DOMAIN groups }

\* the file whose modification time the planner reads, when it reads one
MtimeSource(k) ==
    IF photo_file_opt(groups[k]) # NoFile
    THEN photo_file_opt(groups[k])
    ELSE groups[k][1]

NeedsMtime(k) ==
    \/ photo_file_opt(groups[k]) = NoFile
    \/ k \notin DOMAIN exif_cache
    \/ get_exif_date(exif_cache[k].exif) = None

UnitOf(f) == CHOOSE k \in DOMAIN groups : f \in Range(groups[k])

\* photo_info as detect_sequences sorts it, the units without a capture time
\* dated by the clock readings now
Detected(now) ==
    LET ks == SelectSeq(UnitKeys, LAMBDA k : k \in DOMAIN groups /\ Sequenced(k))
    IN  SortInfo([i \in 1..Len(ks) |->
            PhotoInfo(ks[i], exif_cache[ks[i]].exif,
                      IF TakesNow(ks[i]) THEN now[ks[i]]
                      ELSE get_exif_date(exif_cache[ks[i]].exif))])

\* the folder names the detector can hand to the planner for this cache
Folders ==
    {NoFolder}
        \cup { k \o "_HDR" :
                 k \in { u \in DOMAIN exif_cache :
                            get_hdr_info(exif_cache[u].exif) = 1 } }
        \cup { k \o "_BURST" :
                 k \in { u \in DOMAIN exif_cache :
                            get_sequence_info(exif_cache[u].exif) = 1 } }

\* the destinations the planner can ask the file system about
AskedDests ==
    { DestIn(x[1], ResolveDate(UnitOf(x[1])).date,
             ResolveDate(UnitOf(x[1])).file, x[2]) :
        x \in { g \in AllSources : ResolveDate(UnitOf(g)).date # None }
                 \X Folders }

\* let sequences = detect_sequences(&groups, &exif_cache), as one step of main
DetectAll ==
    /\ pc = "detect"
    /\ \E now \in [{ k \in DOMAIN groups : TakesNow(k) } -> {T0, T0 + MaxTime}] :
          sequences' = TagsOf(Detected(now))
    /\ pc' = "plan"
    /\ UNCHANGED << routing, cache_vars, previous >>
    /\ UNCHANGED << group_vars, input_vars, collect_vars, photo_info, idx,
                    current_hdr_sequence, expected_hdr_shot, hdr_sequence_name,
                    current_burst_sequence, expected_burst_num,
                    burst_sequence_name, plan_vars >>

Faulty == { f \in AllSources :
              src_meta[f].status # "file" \/ src_meta[f].mtime = None }

InitPlan ==
    /\ NotRouting
    /\ NotCaching
    /\ FirstRun
    /\ pc = "detect"
    /\ all_files = << >>
    /\ \E a \in UnitConfigs("A"), b \in UnitConfigs("B"),
          mode \in {"none", "Hdr", "Burst"} :
          LET cfg == [k \in PlanKeys |-> IF k = "A" THEN a ELSE b]
              present == { k \in PlanKeys : cfg[k].shape # "absent" }
              cached == { k \in PlanKeys : cfg[k].cached }
          IN  /\ mode # "none" => cached = PlanKeys
              /\ groups = [k \in present |-> FilesOfShape(k, cfg[k].shape)]
              /\ exif_cache = [k \in cached |->
                    [rep |-> photo_file_opt(FilesOfShape(k, cfg[k].shape)),
                     exif |-> PlanExif(k, mode, cfg[k].date)]]
    \* the source tree: a modification time the planner never reads is T0
    /\ \E st \in [AllSources -> {"file", "other", "missing"}],
          mt \in [DOMAIN groups -> {None, T0, T0 + MaxTime}] :
          /\ \A k \in DOMAIN groups :
                (~NeedsMtime(k) \/ st[MtimeSource(k)] = "missing") => mt[k] = T0
          /\ src_meta = [f \in AllSources |->
                [status |-> st[f],
                 mtime |-> IF st[f] = "missing" THEN None
                           ELSE IF f = MtimeSource(UnitOf(f)) THEN mt[UnitOf(f)]
                           ELSE T0]]
    /\ Cardinality(Faulty) <= MaxFaults
    /\ sequences = EmptyMap
    /\ cutoff_date \in {None, T0}
    \* the destination tree: some of the files the planner asks about exist
    /\ \E existing \in SUBSET AskedDests :
          /\ Cardinality(Faulty) + Cardinality(existing) <= MaxFaults
          /\ disk = existing \cup UNION { Parents(d) : d \in existing }
    /\ visited = {}
    /\ clock = T0
    /\ photo_info = << >>
    /\ idx = 1
    /\ current_hdr_sequence = << >>
    /\ expected_hdr_shot = 1
    /\ hdr_sequence_name = ""
    /\ current_burst_sequence = << >>
    /\ expected_burst_num = 0
    /\ burst_sequence_name = ""
    /\ errors = << >>
    /\ copy_plan = << >>
    /\ result = [kind |-> "Pending"]
    /\ dry_run = FALSE
    /\ stdout = << >>
    /\ exit_code = None

NextPlan == DetectAll \/ PlanUnit \/ PlanReturn \/ MainMatch \/ CopyStep \/ CopyEnd

SpecPlan == InitPlan /\ [][NextPlan]_vars

(***************************************************************************)
(* Claims about the planner, the gate and the executor (SpecPlan)          *)
(***************************************************************************)
\* C3: distinct destinations.  In a plan that validate_and_plan_copy returns,
\* no two entries with different source paths have the same destination
\* path, also for files of the same name in different input directories.
C3_DistinctDestinations ==
    result.kind = "Ok" =>
        \A i, j \in 1..Len(result.plan) :
            result.plan[i].source # result.plan[j].source
                => result.plan[i].dest # result.plan[j].dest

\* the input files that have a destination: the date of their unit resolves
HasDest(f) == ResolveDate(UnitOf(f)).date # None

DestinationOf(f) ==
    DestOf(UnitOf(f), f, ResolveDate(UnitOf(f)).date, ResolveDate(UnitOf(f)).file)

\* the input files of the units the incremental cutoff leaves out
LeftOut(f) == SkippedByCutoff(ResolveDate(UnitOf(f)).date)

Reported(f) ==
    /\ result.kind = "Err"
    /\ \E i \in 1..Len(result.errors) : result.errors[i].file = Display(f)

Planned(f) ==
    /\ result.kind = "Ok"
    /\ \E i \in 1..Len(result.plan) : result.plan[i].source = f

\* C4 as stated: every input file whose destination path exists on disk when
\* the planner runs is in the returned error set and in no returned plan.
C4_NoSilentOverwrite ==
    pc = "planned" =>
        \A f \in AllSources :
            (HasDest(f) /\ DestinationOf(f) \in disk)
                => (Reported(f) /\ ~Planned(f))

\* C4 as amended: an input file whose destination path exists on disk when
\* the planner runs is in no returned plan, and it is in the returned error
\* set unless the incremental cutoff leaves its unit out.
C4_NoOverwriteOutsideCutoff ==
    pc = "planned" =>
        \A f \in AllSources :
            (HasDest(f) /\ DestinationOf(f) \in disk)
                => /\ ~Planned(f)
                   /\ ~LeftOut(f) => Reported(f)

\* in incremental mode, a unit newer than the cutoff has an occupied
\* destination next to a file that was planned
C4_Witness ==
    /\ pc = "planned"
    /\ cutoff_date # None
    /\ copy_plan # << >>
    /\ \E f \in AllSources :
          /\ HasDest(f)
          /\ DestinationOf(f) \in disk
          /\ ~LeftOut(f)
          /\ Reported(f)

\* C5: all-or-nothing gate.  Once an error is recorded, no step changes the
\* destination tree, starts copy_files or returns a plan, and the only exit
\* status the process takes is 1; copy_files starts only from a returned
\* plan, after every unit was validated with no error recorded.
C5_AllOrNothing ==
    [][ /\ errors' # << >> =>
             /\ disk' = disk
             /\ pc' # "copy"
             /\ result'.kind # "Ok"
             /\ exit_code' \in {None, 1}
             /\ pc' = "exit" => exit_code' = 1
        /\ (pc # "copy" /\ pc' = "copy") =>
             /\ errors = << >>
             /\ result.kind = "Ok"
             /\ visited = DOMAIN groups ]_vars

\* a run that planned a file, recorded an error for another, and exited with
\* status 1
C5_Witness ==
    /\ pc = "exit"
    /\ exit_code = 1
    /\ errors # << >>
    /\ copy_plan # << >>

\* C6: planner totality.  What validate_and_plan_copy returns is exactly one
\* of: the plan (possibly empty) with no error recorded, or the recorded
\* errors, of which there is at least one; nothing is returned before every
\* unit was visited.
C6_Totality ==
    IF pc \in {"detect", "plan"}
    THEN result.kind = "Pending"
    ELSE /\ visited = DOMAIN groups
         /\ \/ result.kind = "Ok" /\ result.plan = copy_plan /\ errors = << >>
            \/ result.kind = "Err" /\ result.errors = errors /\ errors # << >>

\* the planner returned the empty plan for units that the cutoff leaves out
C6_Witness ==
    /\ pc = "planned"
    /\ result.kind = "Ok"
    /\ result.plan = << >>
    /\ DOMAIN groups # {}

\* the plan entries and the error entries that belong to the files of a unit
EntriesOf(k) ==
    { i \in 1..Len(copy_plan) : copy_plan[i].source \in Range(groups[k]) }

ErrorsOf(k) ==
    { i \in 1..Len(errors) :
        \E f \in Range(groups[k]) : errors[i].file = Display(f) }

\* C11: incremental cutoff.  When the planner returns: with a cutoff, a unit
\* whose resolved date is at or before the cutoff has no plan entry and no
\* error entry, and every plan entry belongs to a unit whose resolved date is
\* after the cutoff; without a cutoff every file of a unit with a resolved
\* date has a plan entry or an error entry.
C11_Cutoff ==
    pc = "planned" =>
        /\ \A k \in DOMAIN groups :
              LET date == ResolveDate(k).date
              IN  date # None =>
                    IF cutoff_date # None /\ date <= cutoff_date
                    THEN EntriesOf(k) = {} /\ ErrorsOf(k) = {}
                    ELSE \A f \in Range(groups[k]) :
                            \/ \E i \in EntriesOf(k) : copy_plan[i].source = f
                            \/ \E i \in ErrorsOf(k) : errors[i].file = Display(f)
        /\ \A i \in 1..Len(copy_plan) :
              cutoff_date # None =>
                  ResolveDate(UnitOf(copy_plan[i].source)).date > cutoff_date

\* a unit dated exactly at the cutoff, with a faulty file, was left out while
\* a file of another unit was planned
C11_Witness ==
    /\ pc = "planned"
    /\ cutoff_date # None
    /\ copy_plan # << >>
    /\ errors = << >>
    /\ \E k \in DOMAIN groups :
          /\ ResolveDate(k).date = cutoff_date
          /\ \E f \in Range(groups[k]) : src_meta[f].status # "file"

\* the unit has a photo file and its metadata gives no date: it is absent
\* from the cache or its capture time is absent or outside the accepted years
MetadataFailed(k) ==
    /\ photo_file_opt(groups[k]) # NoFile
    /\ \/ k \notin DOMAIN exif_cache
       \/ get_exif_date(exif_cache[k].exif) = None

\* the modification time of the representative can be read
MtimeReadable(k) ==
    /\ src_meta[photo_file_opt(groups[k])].status # "missing"
    /\ src_meta[photo_file_opt(groups[k])].mtime # None

\* the planner has an entry that sends f below year/month/day of date, in the
\* tree of its class, and no error entry for f
PlannedUnder(k, f, date) ==
    /\ \E i \in 1..Len(copy_plan) :
          /\ copy_plan[i].source = f
          /\ copy_plan[i].dest.name = f.name
          /\ \E tree \in {raw_dir, jpeg_dir} :
                LET day == tree \o DayDir(date)
                IN  /\ Len(copy_plan[i].dest.dir) >= Len(day)
                    /\ SubSeq(copy_plan[i].dest.dir, 1, Len(day)) = day
    /\ \A i \in 1..Len(errors) : errors[i].file # Display(f)

\* the regular files of the unit whose destination under date is free
Plannable(k, date) ==
    { f \in Range(groups[k]) :
        /\ src_meta[f].status = "file"
        /\ DestOf(k, f, date, photo_file_opt(groups[k])) \notin disk }

\* C13 as stated: when the planner returns, every unit whose metadata failed
\* and whose representative has a readable modification time has each of its
\* regular, conflict-free files planned under year/month/day of that time,
\* and no error about the unit's date is recorded.
C13_MtimeFallback ==
    pc = "planned" =>
        \A k \in DOMAIN groups :
            (MetadataFailed(k) /\ MtimeReadable(k)) =>
                LET date == src_meta[photo_file_opt(groups[k])].mtime
                IN  /\ \A f \in Plannable(k, date) : PlannedUnder(k, f, date)
                    /\ \A i \in ErrorsOf(k) :
                          errors[i].reason \notin
                              {"Cannot read file metadata",
                               "Cannot get file modification time"}

\* C13 amended: the same, for the units the incremental cutoff does not leave
\* out; a unit whose modification time is at or before the cutoff is skipped,
\* with no plan entry and no error.
C13_MtimeFallbackOutsideCutoff ==
    pc = "planned" =>
        \A k \in DOMAIN groups :
            (MetadataFailed(k) /\ MtimeReadable(k)) =>
                LET date == src_meta[photo_file_opt(groups[k])].mtime
                IN  /\ IF cutoff_date # None /\ date <= cutoff_date
                       THEN EntriesOf(k) = {} /\ ErrorsOf(k) = {}
                       ELSE \A f \in Plannable(k, date) : PlannedUnder(k, f, date)
                    /\ \A i \in ErrorsOf(k) :
                          errors[i].reason \notin
                              {"Cannot read file metadata",
                               "Cannot get file modification time"}

\* a unit absent from the cache and a unit with a capture time of 1989, both
\* planned under their modification times, which are after the cutoff
C13_Witness ==
    /\ pc = "planned"
    /\ cutoff_date # None
    /\ errors = << >>
    /\ \E k \in DOMAIN groups :
          /\ k \notin DOMAIN exif_cache
          /\ MetadataFailed(k) /\ MtimeReadable(k)
          /\ EntriesOf(k) # {}
    /\ \E k \in DOMAIN groups :
          /\ k \in DOMAIN exif_cache
          /\ MetadataFailed(k) /\ MtimeReadable(k)
          /\ EntriesOf(k) # {}

\* the returned error set has an entry for f with the reason
ReportedFor(f, reason) ==
    /\ result.kind = "Err"
    /\ \E i \in 1..Len(result.errors) :
          result.errors[i] = [file |-> Display(f), reason |-> reason]

\* what the file loop has to say about f: no reason for a file it plans
ProblemOf(f) ==
    IF src_meta[f].status = "missing"
    THEN "Source file does not exist or cannot be accessed"
    ELSE IF src_meta[f].status # "file" THEN "Source is not a regular file"
    ELSE IF HasDest(f) /\ DestinationOf(f) \in disk
    THEN "Destination already exists: " \o Display(DestinationOf(f))
    ELSE ""

\* C16 as stated: the returned error set has an entry for every input file
\* that is missing, is not a regular file or has an occupied destination, and
\* for every unit whose date cannot be resolved, over all units.
C16_Exhaustive ==
    pc = "planned" =>
        /\ \A f \in AllSources : ProblemOf(f) # "" => Reported(f)
        /\ \A k \in DOMAIN groups :
              ResolveDate(k).date = None => Reported(ResolveDate(k).file)

\* C16 amended: over all units, a unit whose date cannot be resolved has one
\* entry, for its representative and with the reason of the failed read, and
\* none of its files is examined; a unit the cutoff leaves out has no entry;
\* every other unit has an entry for each of its files that is missing, is
\* not a regular file or has an occupied destination.
C16_ExhaustiveForExaminedUnits ==
    pc = "planned" =>
        \A k \in DOMAIN groups :
            LET r == ResolveDate(k)
            IN  IF r.date = None
                THEN /\ ReportedFor(r.file, r.reason)
                     /\ Cardinality(ErrorsOf(k)) = 1
                ELSE IF cutoff_date # None /\ r.date <= cutoff_date
                THEN ErrorsOf(k) = {}
                ELSE \A f \in Range(groups[k]) :
                        ProblemOf(f) # "" => ReportedFor(f, ProblemOf(f))

\* errors of two units in one returned set: a unit without a date, and a
\* file of another unit that is not regular or has an occupied destination
C16_Witness ==
    /\ pc = "planned"
    /\ result.kind = "Err"
    /\ Len(result.errors) = 2
    /\ \E k \in DOMAIN groups : ResolveDate(k).date = None
    /\ \E f \in AllSources :
          /\ HasDest(f)
          /\ ~LeftOut(f)
          /\ ProblemOf(f) # ""
          /\ Reported(f)

(***************************************************************************)
(* copy_files on its own: the executor run over a plan                     *)
(***************************************************************************)
\* the number of entries of a plan
MaxEntries == 3

\* source files in the order of the plan, and the destinations they can have:
\* two in one day directory of the JPEG tree, one in the RAW tree
CopySources ==
    << Path(InputDir, << "A", ".", "CR2" >>), Path(InputDir, << "A", ".", "jpg" >>),
       Path(InputDir, << "B", ".", "jpg" >>), Path(InputDir2, << "A", ".", "jpg" >>) >>

CopyDests ==
    { Path(jpeg_dir \o DayDir(T0), << "A", ".", "jpg" >>),
      Path(jpeg_dir \o DayDir(T0), << "B", ".", "jpg" >>),
      Path(raw_dir \o DayDir(T0), << "A", ".", "CR2" >>) }

\* the plan that sends the chosen sources to the chosen destinations
PlanOf(chosen, dest_of) ==
    LET srcs == SelectSeq(CopySources, LAMBDA f : f \in chosen)
    IN  [i \in 1..Len(srcs) |-> [source |-> srcs[i], dest |-> dest_of[srcs[i]]]]

\* copy_files(copy_plan, args.dry_run) is entered with a validated plan: no
\* destination exists, some of the destination directories may
InitCopy ==
    /\ pc = "copy"
    /\ NotRouting
    /\ NotCaching
    /\ FirstRun
    /\ \E chosen \in SUBSET Range(CopySources) :
          /\ Cardinality(chosen) <= MaxEntries
          /\ \E dest_of \in [chosen -> CopyDests] :
                /\ copy_plan = PlanOf(chosen, dest_of)
                /\ result = Ok(PlanOf(chosen, dest_of))
    /\ \E made \in SUBSET CopyDests : disk = UNION { Parents(d) : d \in made }
    /\ dry_run \in BOOLEAN
    /\ NotScanning
    /\ groups = EmptyMap
    /\ exif_cache = EmptyMap
    /\ visited = {}
    /\ clock = T0
    /\ photo_info = << >>
    /\ PassLocalsInit
    /\ cutoff_date = None
    /\ src_meta = EmptyMap
    /\ errors = << >>
    /\ stdout = << >>
    /\ exit_code = None

NextCopy == CopyStep \/ CopyEnd

SpecCopy == InitCopy /\ [][NextCopy]_vars

\* C14: fail-fast execution.  In a run that is not a dry run, a step of the
\* loop at entry i only adds paths of entry i to the destination tree and
\* removes none; it either copies entry i and goes on to entry i + 1, or it
\* ends the run with status 1 at entry i, after which no step is taken; all
\* entries before the one reached are copied.
C14_FailFast ==
    [][ /\ (pc = "copy" /\ ~dry_run /\ idx <= Len(copy_plan)) =>
             LET e == copy_plan[idx]
             IN  /\ disk \subseteq disk'
                 /\ disk' \subseteq disk \cup Parents(e.dest) \cup {e.dest}
                 /\ \/ pc' = "copy" /\ idx' = idx + 1 /\ e.dest \in disk'
                    \/ pc' = "exit" /\ exit_code' = 1 /\ idx' = idx
                 /\ \A j \in 1..(idx - 1) : copy_plan[j].dest \in disk'
        /\ pc # "exit" ]_vars

\* the run failed at the second of three entries: the first is copied, the
\* third is not and its directory was not made
C14_Witness ==
    /\ pc = "exit"
    /\ exit_code = 1
    /\ ~dry_run
    /\ idx = 2
    /\ Len(copy_plan) = 3
    /\ copy_plan[1].dest \in disk
    /\ copy_plan[3].dest \notin disk
    /\ Parents(copy_plan[3].dest) \cap disk = {Path(output_dir, << >>)}

\* C15: dry-run non-interference.  In a dry run no step changes the
\* destination tree (no directory is made, no file copied), the lines printed
\* are the "Would copy <source> to <destination>" lines of the entries passed,
\* one per entry in plan order, and the run ends after the last entry with
\* status 0.
C15_DryRun ==
    [][ dry_run =>
          /\ disk' = disk
          /\ stdout' = [i \in 1..(idx' - 1) |->
                          "Would copy " \o Display(copy_plan[i].source)
                              \o " to " \o Display(copy_plan[i].dest)]
          /\ pc' = "exit" => (idx' = Len(copy_plan) + 1 /\ exit_code' = 0) ]_vars

\* a dry run over three entries has ended: three lines, no destination made
C15_Witness ==
    /\ pc = "exit"
    /\ dry_run
    /\ Len(copy_plan) = 3
    /\ Len(stdout) = 3
    /\ \A i \in 1..3 : copy_plan[i].dest \notin disk
    /\ disk = {}

(***************************************************************************)
(* determine_target_base on its own: one call on a file name and a default *)
(* tree                                                                    *)
(***************************************************************************)
\* stems, format tags and extensions of the file names routed
RouteStems == {"IMG020", "B"}
RouteTags == {"CR2", "cr2", "ORF", "JPG", "jpeg", "xmp", "txt"}
RouteExts == {"jpg", "JPG", "jpeg", "CR2", "orf", "xmp", "XMP", "txt"}

\* names of one, two, three and four dot-separated parts
RouteNames ==
    { << s >> : s \in RouteStems }
    \cup { << s, ".", e >> : s \in RouteStems, e \in RouteExts }
    \cup { << s, ".", t, ".", e >> : s \in RouteStems, t \in RouteTags, e \in RouteExts }
    \cup { << s, ".", "v2", ".", t, ".", e >> :
               s \in {"IMG020"}, t \in RouteTags, e \in RouteExts }

InitRoute ==
    /\ pc = "route"
    /\ NotCaching
    /\ FirstRun
    /\ \E name \in RouteNames, base \in {raw_dir, jpeg_dir} :
          routing = [filename |-> name, default_base |-> base, target_base |-> << >>]
    /\ NotScanning
    /\ groups = EmptyMap
    /\ exif_cache = EmptyMap
    /\ visited = {}
    /\ clock = T0
    /\ photo_info = << >>
    /\ PassLocalsInit
    /\ NotPlanning

\* let target_base = determine_target_base(filename, raw_dir, jpeg_dir, ..)
Route ==
    /\ pc = "route"
    /\ pc' = "routed"
    /\ routing' = [routing EXCEPT !.target_base =
                      determine_target_base(routing.filename, routing.default_base)]
    /\ UNCHANGED << group_vars, input_vars, collect_vars, detect_vars, plan_vars,
                    cache_vars, previous >>

NextRoute == Route

SpecRoute == InitRoute /\ [][NextRoute]_vars

\* the name is <base>.<FORMAT>.<ext> and FORMAT is a raw format tag
HasRawTag(name) ==
    /\ Len(name) = 5
    /\ name[2] = "."
    /\ name[4] = "."
    /\ ToUppercase(name[3]) \in {"ORF", "CR2", "NEF", "ARW", "DNG", "RAW"}

\* C12 as stated: a routed file named <base>.<FORMAT>.<ext> whose FORMAT is a
\* raw format is placed in the RAW tree, whatever its extension is.
C12_RawTagRoutesRaw ==
    (pc = "routed" /\ HasRawTag(routing.filename)) =>
        routing.target_base = raw_dir

\* C12 amended: a routed file named <base>.<FORMAT>.<ext> whose FORMAT is a
\* raw format is placed in the RAW tree whatever the unit's default tree is,
\* unless its own extension is a JPEG extension: then it is placed in the
\* JPEG tree.
C12_RawTagRoutesRawUnlessJpeg ==
    (pc = "routed" /\ HasRawTag(routing.filename)) =>
        routing.target_base =
            IF is_jpeg_file(routing.filename) THEN jpeg_dir ELSE raw_dir

\* IMG020.CR2.xmp of a unit whose default tree is JPEG was placed in RAW
C12_Witness ==
    /\ pc = "routed"
    /\ routing.filename = << "IMG020", ".", "CR2", ".", "xmp" >>
    /\ routing.default_base = jpeg_dir
    /\ routing.target_base = raw_dir

(***************************************************************************)
(* Claims about the runs the two passes tag (SpecSeq)                      *)
(***************************************************************************)
\* the positions in list of the units that carry the tag
MembersIn(list, tag) ==
    { i \in 1..Len(list) :
        list[i].base \in DOMAIN sequences /\ sequences[list[i].base] = tag }

\* the positions are p, p + 1, .., p + n - 1 for some n >= 2
Interval(ps) ==
    /\ Cardinality(ps) >= 2
    /\ \A i \in ps : \A j \in ps : \A m \in i..j : m \in ps

First(ps) == CHOOSE i \in ps : \A j \in ps : i <= j

\* C17: HDR run structure.  After every flush, the units that carry one Hdr
\* tag are two or more neighbours in the sorted list of sequenced units, and
\* the HDR shot ordinals of the first, second, .. of them are 1, 2, ..; no
\* unit whose HDR shot ordinal is absent is tagged Hdr.
C17_HdrRunStructure ==
    /\ \A k \in DOMAIN sequences :
          sequences[k].kind = "Hdr" =>
              LET ps == MembersIn(photo_info, sequences[k])
              IN  /\ Interval(ps)
                  /\ \A i \in ps : photo_info[i].hdr = i - First(ps) + 1
    /\ \A i \in 1..Len(photo_info) :
          photo_info[i].hdr = None => ~TaggedAs(photo_info[i].base, "Hdr")

\* two HDR runs of two units each, one after the other
C17_Witness ==
    /\ pc = "detected"
    /\ Len(photo_info) = 4
    /\ \A i \in 1..4 : TaggedAs(photo_info[i].base, "Hdr")
    /\ sequences[photo_info[2].base] # sequences[photo_info[3].base]

\* C18 as stated: the units that carry one Burst tag are two or more
\* neighbours in the sorted list of all sequenced units, with burst ordinals
\* 1, 2, .. in that order.
C18_BurstAdjacency ==
    \A k \in DOMAIN sequences :
        sequences[k].kind = "Burst" =>
            LET ps == MembersIn(photo_info, sequences[k])
            IN  /\ Interval(ps)
                /\ \A i \in ps : photo_info[i].burst = i - First(ps) + 1

\* C18 amended: the units that carry one Burst tag are two or more neighbours
\* in the sorted list of the sequenced units that are not tagged Hdr, with
\* burst ordinals 1, 2, .. in that order; units tagged Hdr may lie between
\* two members.
C18_BurstAdjacencyAmongUntagged ==
    \A k \in DOMAIN sequences :
        sequences[k].kind = "Burst" =>
            LET ps == MembersIn(NotHdrTagged, sequences[k])
            IN  /\ Interval(ps)
                /\ \A i \in ps : NotHdrTagged[i].burst = i - First(ps) + 1

\* a burst run of two units with an HDR run of two units between them
C18_Witness ==
    /\ pc = "detected"
    /\ Len(photo_info) = 4
    /\ TaggedAs(photo_info[1].base, "Burst")
    /\ TaggedAs(photo_info[2].base, "Hdr")
    /\ TaggedAs(photo_info[3].base, "Hdr")
    /\ TaggedAs(photo_info[4].base, "Burst")
    /\ sequences[photo_info[1].base] = sequences[photo_info[4].base]

\* what a broken run leaves: the run is tagged when it has two members or
\* more and left as it was otherwise, no other key is touched, the unit that
\* broke it is not tagged, and the run state is cleared
BrokenEffect(run, tag, run_after, expected_after, reset, base) ==
    /\ sequences' =
          IF Len(run) >= 2
          THEN [k \in (DOMAIN sequences) \cup Range(run) |->
                   IF k \in Range(run) THEN tag ELSE sequences[k]]
          ELSE sequences
    /\ base \notin DOMAIN sequences'
    /\ run_after = << >>
    /\ expected_after = reset

\* what ordinal 1 leaves: the open run is closed the same way and the unit is
\* the only member of a new run
RestartEffect(run, tag, run_after, expected_after, base) ==
    /\ sequences' =
          IF Len(run) >= 2
          THEN [k \in (DOMAIN sequences) \cup Range(run) |->
                   IF k \in Range(run) THEN tag ELSE sequences[k]]
          ELSE sequences
    /\ run_after = << base >>
    /\ expected_after = 2

\* C19: broken-run policy.  In either pass, a step at a unit whose ordinal is
\* present (non-zero for burst) and is neither 1 nor the expected one tags the
\* open run if and only if it has two members or more, tags nothing else,
\* leaves the unit out of every run and clears the run state; a step at a
\* unit with ordinal 1 closes the open run the same way and starts a new run
\* with that unit; a step only ever tags members of the open run, and with no
\* run open only ordinal 1 opens one.
C19_BrokenRun ==
    [][ /\ (pc = "pass1" /\ idx <= Len(photo_info)) =>
             LET u == photo_info[idx]
                 tag == SequenceType("Hdr", hdr_sequence_name)
             IN  /\ u.hdr \notin {None, 1, expected_hdr_shot} =>
                       BrokenEffect(current_hdr_sequence, tag,
                                    current_hdr_sequence', expected_hdr_shot',
                                    1, u.base)
                 /\ u.hdr = 1 =>
                       RestartEffect(current_hdr_sequence, tag,
                                     current_hdr_sequence', expected_hdr_shot',
                                     u.base)
                 /\ (DOMAIN sequences') \ (DOMAIN sequences)
                       \subseteq Range(current_hdr_sequence)
                 /\ (current_hdr_sequence = << >> /\ u.hdr # 1) =>
                       current_hdr_sequence' = << >>
        /\ (pc = "pass2" /\ idx <= Len(photo_info)
              /\ photo_info[idx].base \notin DOMAIN sequences) =>
             LET u == photo_info[idx]
                 tag == SequenceType("Burst", burst_sequence_name)
             IN  /\ u.burst \notin {0, 1, expected_burst_num} =>
                       BrokenEffect(current_burst_sequence, tag,
                                    current_burst_sequence', expected_burst_num',
                                    0, u.base)
                 /\ u.burst = 1 =>
                       RestartEffect(current_burst_sequence, tag,
                                     current_burst_sequence', expected_burst_num',
                                     u.base)
                 /\ (DOMAIN sequences') \ (DOMAIN sequences)
                       \subseteq Range(current_burst_sequence)
                 /\ (current_burst_sequence = << >> /\ u.burst # 1) =>
                       current_burst_sequence' = << >> ]_vars

\* HDR shots 1, 2, 2, 2 and burst ordinals 2, 2, 2, 2: pass 1 tags exactly
\* the first two units, the third breaks the run, the fourth finds no run;
\* pass 2 finds no run at the third and the fourth and tags neither
C19_Witness ==
    /\ pc = "detected"
    /\ Len(photo_info) = 4
    /\ \A i \in 1..4 : photo_info[i].hdr = (IF i = 1 THEN 1 ELSE 2)
    /\ \A i \in 1..4 : photo_info[i].burst = 2
    /\ DOMAIN sequences = {photo_info[1].base, photo_info[2].base}
    /\ TaggedAs(photo_info[1].base, "Hdr")

\* the units pass 2 does not skip, as the input of pass 1: burst ordinal 0 is
\* an absent shot number, any other burst ordinal k is shot number k
AsHdrInput ==
    [i \in 1..Len(NotHdrTagged) |->
        [NotHdrTagged[i] EXCEPT
            !.hdr = IF NotHdrTagged[i].burst = 0 THEN None
                    ELSE NotHdrTagged[i].burst]]

\* the tag map of the pass 1 loop and its last flush, from an empty map
Pass1Machine(list) ==
    LET h == FoldHdr([run |-> << >>, expected |-> 1, name |-> "",
                      seqs |-> EmptyMap], list, 1)
    IN  FlushRun(h.seqs, h.run, SequenceType("Hdr", h.name))

\* C20: burst pass equals HDR pass.  When both passes are done, the keys the
\* pass 2 code tagged Burst are the keys the pass 1 machine tags on the units
\* not tagged Hdr (burst ordinal 0 read as absent, k as shot k), and a key in
\* run <first>_BURST of the code is in run <first>_HDR of the machine.
C20_BurstPassIsHdrPass ==
    pc = "detected" =>
        LET machine == Pass1Machine(AsHdrInput)
        IN  /\ DOMAIN machine = { k \in DOMAIN sequences : sequences[k].kind = "Burst" }
            /\ \A k \in DOMAIN machine :
                  \E first \in Range(UnitKeys) :
                      /\ sequences[k] = SequenceType("Burst", first \o "_BURST")
                      /\ machine[k] = SequenceType("Hdr", first \o "_HDR")

\* burst ordinals 2, 1, 2, 2 on units without HDR shot numbers: the first
\* and the last unit find no run, the two between them are one burst run
C20_Witness ==
    /\ pc = "detected"
    /\ Len(photo_info) = 4
    /\ \A i \in 1..4 : photo_info[i].hdr = None
    /\ \A i \in 1..4 : photo_info[i].burst = (IF i = 2 THEN 1 ELSE 2)
    /\ DOMAIN sequences = {photo_info[2].base, photo_info[3].base}
    /\ TaggedAs(photo_info[2].base, "Burst")

(***************************************************************************)
(* Claims about detect_sequences as a whole, runs (SpecDetect)             *)
(***************************************************************************)
\* the position in photo_info of the first member of the run of position i
RunStart(i) == First(MembersIn(photo_info, sequences[photo_info[i].base]))

\* C21: units without capture time do not chain backwards.  When both passes
\* are done, a cached unit whose metadata has no acceptable capture time is
\* after every unit that has one in the sorted list, and when it is tagged the
\* first member of its run has no acceptable capture time either.
C21_NoBackwardChain ==
    pc = "detected" =>
        \A i \in 1..Len(photo_info) :
            TakesNow(photo_info[i].base) =>
                /\ \A j \in 1..Len(photo_info) :
                      ~TakesNow(photo_info[j].base) => j < i
                /\ photo_info[i].base \in DOMAIN sequences =>
                      TakesNow(photo_info[RunStart(i)].base)

(***************************************************************************)
(* cache_exif_data: the representatives, the parallel queries and the      *)
(* collection of their outputs into the cache                              *)
(***************************************************************************)
\* "Pick JPEG if available, else first photo file"; NoFile when the unit has
\* no photo file
rep_file(file_list) ==
    LET photo_files == SelectSeq(file_list, IsPhotoPath)
        jpegs == SelectSeq(photo_files, LAMBDA f : is_jpeg_file(f.name))
    IN  IF photo_files = << >> THEN NoFile
        ELSE IF jpegs # << >> THEN Head(jpegs)
        ELSE photo_files[1]

\* Result<Value, _> of get_exif_data
QueryFailed == [ok |-> FALSE, exif |-> NoExif]
QueryOk(exif) == [ok |-> TRUE, exif |-> exif]

\* the closure of filter_map on task (base, rep_file): None or Some(entry)
TaskOutput(base, file) ==
    IF ~exiftool[file].ok THEN [some |-> FALSE]
    ELSE [some |-> TRUE, base |-> base, rep |-> file,
          exif |-> exiftool[file].exif]

\* a collection in which a write replaces what the other tasks wrote
InsertAlone(cache, out) == (out.base :> [rep |-> out.rep, exif |-> out.exif])

\* HashMap::extend with one (key, value) pair
Insert(cache, out) ==
    [k \in (DOMAIN cache) \cup {out.base} |->
        IF k = out.base THEN [rep |-> out.rep, exif |-> out.exif] ELSE cache[k]]

RECURSIVE CollectFrom(_, _, _)
\* .collect() of the outputs that are Some, in the order they were produced
CollectFrom(cache, outs, i) ==
    IF i > Len(outs) THEN cache
    ELSE CollectFrom(IF outs[i].out.some THEN Insert(cache, outs[i].out) ELSE cache,
                     outs, i + 1)

\* one iteration of: for (base, file_list) in groups
PickRepresentative ==
    /\ pc = "representatives"
    /\ \E base \in (DOMAIN groups) \ visited :
          /\ visited' = visited \cup {base}
          /\ representative_files' =
                IF rep_file(groups[base]) # NoFile
                THEN Append(representative_files,
                            [base |-> base, rep |-> rep_file(groups[base])])
                ELSE representative_files
    /\ UNCHANGED << pc, group_vars, input_vars, clock, detect_vars, plan_vars,
                    routing, exiftool, results, previous >>

\* representative_files.par_iter(): the tasks are handed to the thread pool
StartQueries ==
    /\ pc = "representatives"
    /\ visited = DOMAIN groups
    /\ pc' = "queries"
    /\ UNCHANGED << group_vars, input_vars, collect_vars, detect_vars, plan_vars,
                    routing, cache_vars, previous >>

\* the tasks that have not finished
Pending ==
    { i \in 1..Len(representative_files) :
        \A j \in 1..Len(results) : results[j].task # i }

\* one task runs get_exif_data on its representative and finishes; the tasks
\* finish in any order
Query ==
    /\ pc = "queries"
    /\ \E i \in Pending :
          results' = Append(results,
              [task |-> i,
               out |-> TaskOutput(representative_files[i].base,
                                  representative_files[i].rep)])
    /\ UNCHANGED << pc, group_vars, input_vars, collect_vars, detect_vars,
                    plan_vars, routing, representative_files, exiftool,
                    previous >>

\* .collect() into the HashMap once every task has finished
Collect ==
    /\ pc = "queries"
    /\ Pending = {}
    /\ exif_cache' = CollectFrom(EmptyMap, results, 1)
    /\ pc' = "cached"
    /\ UNCHANGED << group_vars, groups, collect_vars, detect_vars, plan_vars,
                    routing, cache_vars, previous >>

\* the units cache_exif_data is given and the answers of the external tool
CacheKeys == {"A", "B", "C"}

CacheShapes == {"absent", "sidecar", "jpg", "raw", "rawjpg"}

CacheFiles(k, shape) ==
    CASE shape = "sidecar" -> << Path(InputDir, << k, ".", "xmp" >>) >>
      [] shape = "jpg" -> << Path(InputDir, << k, ".", "jpg" >>) >>
      [] shape = "raw" -> << Path(InputDir, << k, ".", "CR2", ".", "xmp" >>),
                             Path(InputDir, << k, ".", "CR2" >>) >>
      [] shape = "rawjpg" -> << Path(InputDir, << k, ".", "CR2" >>),
                                Path(InputDir, << k, ".", "jpg" >>) >>
      [] OTHER -> << >>

CacheAnswers ==
    {QueryFailed, QueryOk(Exif(T0, 0, None)), QueryOk(Exif(T0, 1, None))}

InitCache ==
    /\ pc = "representatives"
    /\ \E shape \in [CacheKeys -> CacheShapes] :
          LET keys == { k \in CacheKeys : shape[k] # "absent" }
              files == UNION { Range(CacheFiles(k, shape[k])) : k \in keys }
          IN  /\ groups = [k \in keys |-> CacheFiles(k, shape[k])]
              /\ exiftool \in [{ f \in files : IsPhotoPath(f) } -> CacheAnswers]
    /\ exif_cache = EmptyMap
    /\ representative_files = << >>
    /\ results = << >>
    /\ visited = {}
    /\ clock = T0
    /\ photo_info = << >>
    /\ PassLocalsInit
    /\ NotScanning
    /\ NotPlanning
    /\ NotRouting
    /\ FirstRun

NextCache == PickRepresentative \/ StartQueries \/ Query \/ Collect

SpecCache == InitCache /\ [][NextCache]_vars

\* the representative of a unit: its first JPEG file, else its first raw file
OwnRepresentative(k) ==
    LET fs == groups[k]
        isJpeg(i) == is_jpeg_file(fs[i].name)
        isPhoto(i) == is_jpeg_file(fs[i].name) \/ is_raw_file(fs[i].name)
        pick == IF \E i \in 1..Len(fs) : isJpeg(i)
                THEN CHOOSE i \in 1..Len(fs) : isJpeg(i) /\ \A j \in 1..(i - 1) : ~isJpeg(j)
                ELSE CHOOSE i \in 1..Len(fs) : isPhoto(i) /\ \A j \in 1..(i - 1) : ~isPhoto(j)
    IN  fs[pick]

HasPhoto(k) ==
    \E i \in 1..Len(groups[k]) :
        is_jpeg_file(groups[k][i].name) \/ is_raw_file(groups[k][i].name)

\* C22: parallel metadata resolution is interleaving-independent.  Whatever
\* the order in which the units were listed and the queries finished, the
\* cache that is returned has exactly the units with a photo file whose query
\* succeeded as keys, and maps each of them to its own representative and to
\* the answer of the query on that representative.
C22_InterleavingIndependent ==
    pc = "cached" =>
        /\ DOMAIN exif_cache =
              { k \in DOMAIN groups :
                  HasPhoto(k) /\ exiftool[OwnRepresentative(k)].ok }
        /\ \A k \in DOMAIN exif_cache :
              /\ exif_cache[k].rep = OwnRepresentative(k)
              /\ exif_cache[k].exif = exiftool[OwnRepresentative(k)].exif

\* three photo units whose queries finished in the reverse of the order in
\* which they were handed out; one failed, two gave different answers
C22_Witness ==
    /\ pc = "cached"
    /\ Len(results) = 3
    /\ \A j \in 1..3 : results[j].task = 4 - j
    /\ Cardinality(DOMAIN exif_cache) = 2
    /\ \E k1, k2 \in DOMAIN exif_cache : exif_cache[k1].exif # exif_cache[k2].exif
    /\ \E k \in DOMAIN exif_cache : Len(groups[k]) = 2

(***************************************************************************)
(* Claims about units and runs in the planner (SpecPlan)                   *)
(***************************************************************************)
\* the unit has no raw and no JPEG file
SidecarOnly(k) ==
    \A f \in Range(groups[k]) : ~is_raw_file(f.name) /\ ~is_jpeg_file(f.name)

\* the plan sends f to <tree>/<year>/<day> of date, with no folder below it
PlannedInDay(f, date) ==
    \E i \in 1..Len(copy_plan) :
        /\ copy_plan[i].source = f
        /\ copy_plan[i].dest.name = f.name
        /\ copy_plan[i].dest.dir \in
              { tree \o << ToString(YearOf(date)), ToString(DayOf(date)) >> :
                  tree \in {raw_dir, jpeg_dir} }

\* C23 as stated: a unit with no raw and no JPEG file has no cache entry and
\* no tag, and each of its regular files with a free destination is in the
\* plan, directly under year/month/day of the modification time of the first
\* file of the unit.
C23_SidecarOnly ==
    pc = "planned" =>
        \A k \in DOMAIN groups :
            SidecarOnly(k) =>
                /\ k \notin DOMAIN exif_cache
                /\ k \notin DOMAIN sequences
                /\ \A i \in EntriesOf(k) :
                      Len(copy_plan[i].dest.dir) = Len(output_dir) + 3
                /\ \A f \in Range(groups[k]) :
                      (/\ src_meta[f].status = "file"
                       /\ \A d \in disk : d.name # f.name)
                          => /\ src_meta[groups[k][1]].mtime # None
                             /\ PlannedInDay(f, src_meta[groups[k][1]].mtime)

\* C23 amended: the same, when the modification time of the first file can be
\* read and the incremental cutoff does not leave the unit out; when it cannot
\* be read the unit has one error entry and no plan entry, and a unit at or
\* before the cutoff has neither.
C23_SidecarOnlyOutsideCutoff ==
    pc = "planned" =>
        \A k \in DOMAIN groups :
            SidecarOnly(k) =>
                LET first == groups[k][1]
                    date == src_meta[first].mtime
                IN  /\ k \notin DOMAIN exif_cache
                    /\ k \notin DOMAIN sequences
                    /\ \A i \in EntriesOf(k) :
                          Len(copy_plan[i].dest.dir) = Len(output_dir) + 3
                    /\ IF date = None
                       THEN EntriesOf(k) = {} /\ Cardinality(ErrorsOf(k)) = 1
                       ELSE IF cutoff_date # None /\ date <= cutoff_date
                       THEN EntriesOf(k) = {} /\ ErrorsOf(k) = {}
                       ELSE \A f \in Range(groups[k]) :
                               (/\ src_meta[f].status = "file"
                                /\ \A d \in disk : d.name # f.name)
                                   => PlannedInDay(f, date)

\* a sidecar-only unit planned under the day of its modification time, next
\* to a photo unit planned under another day
C23_Witness ==
    /\ pc = "planned"
    /\ cutoff_date # None
    /\ \E k \in DOMAIN groups :
          /\ SidecarOnly(k)
          /\ EntriesOf(k) # {}
          /\ \A f \in Range(groups[k]) : PlannedInDay(f, T0 + MaxTime)
    /\ \E k \in DOMAIN groups : ~SidecarOnly(k) /\ EntriesOf(k) # {}

(***************************************************************************)
(* Claims about units outside the cache (SpecDetect)                       *)
(***************************************************************************)
\* a unit with a photo file whose query failed
Uncached(k) ==
    /\ \E f \in Range(groups[k]) : is_raw_file(f.name) \/ is_jpeg_file(f.name)
    /\ k \notin DOMAIN exif_cache

\* C24: photo units absent from the cache are invisible to the detector.
\* When both passes are done, the sorted list holds exactly the photo units
\* that are in the cache, no unit outside the cache has a tag, and two
\* neighbours of the list with HDR shots k and k + 1, the first of which
\* starts or is in a run, carry the same Hdr tag, whatever uncached units lie
\* between their keys.
C24_UncachedInvisible ==
    pc = "detected" =>
        /\ { photo_info[i].base : i \in 1..Len(photo_info) } =
              { k \in DOMAIN groups :
                  /\ k \in DOMAIN exif_cache
                  /\ \E f \in Range(groups[k]) :
                        is_raw_file(f.name) \/ is_jpeg_file(f.name) }
        /\ \A k \in DOMAIN groups : Uncached(k) => k \notin DOMAIN sequences
        /\ \A i \in 1..(Len(photo_info) - 1) :
              LET x == photo_info[i]
                  y == photo_info[i + 1]
              IN  (/\ x.hdr # None
                   /\ y.hdr = x.hdr + 1
                   /\ x.hdr = 1 \/ TaggedAs(x.base, "Hdr"))
                      => /\ TaggedAs(x.base, "Hdr")
                         /\ y.base \in DOMAIN sequences
                         /\ sequences[y.base] = sequences[x.base]

\* A with shot 1 and C with shot 2 are one HDR run over the uncached photo
\* unit B
C24_Witness ==
    /\ pc = "detected"
    /\ Uncached("B")
    /\ TaggedAs("A", "Hdr")
    /\ "C" \in DOMAIN sequences
    /\ sequences["C"] = sequences["A"]
    /\ "B" \notin DOMAIN sequences

\* C25: sequence members are filed together.  In every returned plan, two
\* files of units that carry the same tag and that go to the same tree have
\* the same destination directory.
C25_FiledTogether ==
    (pc = "planned" /\ result.kind = "Ok") =>
        \A i, j \in 1..Len(result.plan) :
            LET a == result.plan[i]
                b == result.plan[j]
                ka == UnitOf(a.source)
                kb == UnitOf(b.source)
            IN  (/\ ka \in DOMAIN sequences
                 /\ kb \in DOMAIN sequences
                 /\ sequences[ka] = sequences[kb]
                 /\ SubSeq(a.dest.dir, 1, Len(output_dir) + 1)
                       = SubSeq(b.dest.dir, 1, Len(output_dir) + 1))
                    => a.dest.dir = b.dest.dir


(***************************************************************************)
(* SpecRerun: main run twice.  The first process copied a non-empty plan   *)
(* and returned Ok(()); the second process is started without              *)
(* --incremental on the same input directory, the same metadata and the    *)
(* same output root, and finds the tree the first one left                 *)
(***************************************************************************)
Rerun ==
    /\ pc = "exit"
    /\ FirstRun
    /\ exit_code = 0
    /\ ~dry_run
    /\ result.kind = "Ok"
    /\ copy_plan # << >>
    /\ previous' = [plan |-> copy_plan, disk |-> disk, status |-> exit_code]
    /\ pc' = "detect"
    \* let cutoff_date = if args.incremental { ... } else { None }
    /\ cutoff_date' = None
    /\ sequences' = EmptyMap
    /\ visited' = {}
    /\ idx' = 1
    /\ errors' = << >>
    /\ copy_plan' = << >>
    /\ result' = [kind |-> "Pending"]
    /\ stdout' = << >>
    /\ exit_code' = None
    /\ UNCHANGED << routing, cache_vars >>
    /\ UNCHANGED << group_vars, input_vars, clock, photo_info,
                    current_hdr_sequence, expected_hdr_shot, hdr_sequence_name,
                    current_burst_sequence, expected_burst_num,
                    burst_sequence_name, src_meta, disk, dry_run >>

InitRerun == InitPlan

NextRerun ==
    DetectAll \/ PlanUnit \/ PlanReturn \/ MainMatch \/ CopyStep \/ CopyEnd
        \/ Rerun

SpecRerun == InitRerun /\ [][NextRerun]_vars

(***************************************************************************)
(* Claims about a repeated run (SpecRerun)                                 *)
(***************************************************************************)
\* the second process has returned from validate_and_plan_copy
SecondRunValidated == ~FirstRun /\ pc \in {"planned", "copy", "exit"}

\* the error the file loop records for an entry of a plan that was copied
AlreadyExists(e) ==
    ValidationError(e.source, "Destination already exists: " \o Display(e.dest))

\* C26: a repeated run never overwrites.  The second run fails validation
\* with one "destination already exists" error for every file the first run
\* copied, copies nothing and leaves the destination tree as the first run
\* left it.
C26_RepeatedRunRefuses ==
    ~FirstRun =>
        /\ disk = previous.disk
        /\ pc # "copy"
        /\ SecondRunValidated =>
              /\ result.kind = "Err"
              /\ \A i \in 1..Len(previous.plan) :
                    Cardinality({ j \in 1..Len(errors) :
                        errors[j] = AlreadyExists(previous.plan[i]) }) = 1

====
